---- MODULE Spec2Model ----
(***************************************************************************)
(* A model of the demodocus crawler core: the graph store (graph/graph.py, *)
(* graph/state.py, graph/edge.py), the state-data equality of the web      *)
(* interface (web/state.py), and the explorers (controller/controller.py,  *)
(* controller/multicontroller.py).                                         *)
(*                                                                         *)
(* Three specifications share the graph operators:                         *)
(*   SpecStates - add_state / Graph() / template augmentation              *)
(*   SpecEdges  - add_edge / add_data_for_user / score assignment          *)
(*   Spec       - the pooled and the single-threaded explorer              *)
(***************************************************************************)
EXTENDS Integers, Sequences, FiniteSets, TLC

(***************************************************************************)
(* Bounds of the model.                                                    *)
(***************************************************************************)
\* Text values the one compared DOM element can show.
MaxValue == 3
\* State objects created per counter epoch in SpecStates.
MaxStates == 3
\* Graph() constructions in SpecStates.
MaxGraphs == 2
\* Ability scores an observation can carry.
MaxScore == 2
\* Edge objects created in SpecEdges.
MaxEdges == 2

Values == 1..MaxValue

NoState == -1

(***************************************************************************)
(* HtmlTemplate, reduced to one text-bearing element: vals is the set of   *)
(* "||"-separated text values of the element in _full_tree, unst is its    *)
(* unstable_text marker, none stands for a StateData.template of None.     *)
(***************************************************************************)
NoTemplate == [none |-> TRUE, vals |-> {}, unst |-> FALSE]

HtmlTemplate(dom) == [none |-> FALSE, vals |-> {dom}, unst |-> FALSE]

\* TRUE when _match_trees finds no difference (returns None).
match_trees(t1, t2) ==
    \/ t1 = t2                      \* etree.tostring(lel1) == etree.tostring(lel2)
    \/ t1.unst \/ t2.unst           \* unstable_text in either element
    \/ t1.vals = t2.vals            \* lel1.text == lel2.text

matches_html(t, dom) == match_trees(t, HtmlTemplate(dom))

\* _get_merged_tree with _helper_combine_text and the marker copy of
\* _helper_combine_attributes.
get_merged_tree(t1, t2, overwrite) ==
    IF t1 = t2 THEN t1
    ELSE IF t1.vals # t2.vals
         THEN IF ~overwrite \/ t1.unst \/ t2.unst
              THEN [none |-> FALSE, vals |-> t1.vals \cup t2.vals, unst |-> TRUE]
              ELSE [none |-> FALSE, vals |-> t2.vals, unst |-> FALSE]
         ELSE [none |-> FALSE, vals |-> t2.vals, unst |-> t1.unst \/ t2.unst]

\* HtmlTemplate.add_template / add_tree on a template that holds a tree.
add_template(t, t2) == get_merged_tree(t, t2, FALSE)

(***************************************************************************)
(* WebStateData: stub flag, url (path and query), dom, template.           *)
(***************************************************************************)
EntryPath == 0
StubPath == 1

WebStateData(stub, path, query, dom, tmpl) ==
    [stub |-> stub, path |-> path, query |-> query, dom |-> dom, tmpl |-> tmpl]

\* WebStateData.__eq__(self, other): res is "true", "false" or "raise"
\* (AttributeError: HtmlTemplate has no method matches); other is the
\* argument after the call, which may have been given a template.
WebStateData_eq(self, other) ==
    IF self.stub # other.stub THEN [res |-> "false", other |-> other]
    ELSE IF self.path # other.path THEN [res |-> "false", other |-> other]
    ELSE IF self.stub /\ other.stub /\ self.query = other.query
         THEN [res |-> "true", other |-> other]
    ELSE IF self.dom = other.dom THEN [res |-> "true", other |-> other]
    ELSE IF ~self.tmpl.none /\ ~other.tmpl.none
         THEN [res |-> IF match_trees(self.tmpl, other.tmpl) THEN "true" ELSE "false",
               other |-> other]
    ELSE IF ~self.tmpl.none THEN [res |-> "raise", other |-> other]
    ELSE IF ~other.tmpl.none THEN [res |-> "raise", other |-> other]
    ELSE LET t == HtmlTemplate(other.dom)
         IN  [res |-> IF matches_html(t, self.dom) THEN "true" ELSE "false",
              other |-> [other EXCEPT !.tmpl = t]]

\* The comparison as a caller sees it when nothing is raised.
DataEqual(a, b) == WebStateData_eq(a, b).res = "true"

(***************************************************************************)
(* The graph store.                                                        *)
(***************************************************************************)
VARIABLES
    auto_inc,       \* State.auto_inc
    states,         \* Graph.states: State.id -> [data, user_paths]
    start_state,    \* Graph.start_state (NoState for None)
    edgeObjs,       \* every Edge object created, in creation order
    edges,          \* Graph.edges: the indices of edgeObjs held in the sets
    idCount,        \* history: id -> number of State objects ever given it
    epochCount,     \* history: the same, since the last State.reset_inc
    graphs,         \* history: number of Graph() constructions
    last,           \* history: the latest add_state call(s) and their results
    observed        \* history: (edge key, user) -> the highest score reported

graphVars == <<auto_inc, states, start_state, edgeObjs, edges>>
histVars == <<idCount, epochCount, graphs, last, observed>>

(***************************************************************************)
(* The explorers: thread 0 is the caller of build_graph (and the           *)
(* single-threaded explorer itself), threads 1..NumWorkers are the pool's  *)
(* Worker threads.                                                         *)
(***************************************************************************)
VARIABLES
    mode,           \* "pool" (MultiController) or "single" (Controller)
    mainPc,         \* position of the caller of build_graph / stop
    queue,          \* ThreadPool.queue (pool) or states_to_visit (single)
    unfinished,     \* Queue.unfinished_tasks
    stop_event,     \* ThreadPool.stop_event
    noops,          \* no-op tasks ThreadPool.stop has put so far
    pc,             \* position of each thread in Worker.run / the explore loop
    cur,            \* the state each thread is expanding
    cursor,         \* (action, element) pairs the thread has yet to try on cur
    found,          \* states_found of the thread's running build call
    owed,           \* history: tasks a worker dequeued and has not marked done
    raisedBefore,   \* history: the worker has caught an exception
    expCount,       \* history: id -> number of times its expansion began
    expanded        \* history: ids whose expansion tried every pair

(***************************************************************************)
(* The simulated crawl of a built graph, and the calls modelled on their  *)
(* own: perform_action_on_element, wait_for_stable_template, compare.      *)
(***************************************************************************)
VARIABLES
    to_visit,       \* states_to_visit of crawl / crawl_graph
    seen_states,    \* seen_states of crawl / crawl_graph
    pending,        \* outgoing edges of the crawled state not yet simulated
    ability,        \* the elements the crawling user is able to act on
    captures,       \* the interface's perform_action_on_element calls get_data
    pa,             \* the running perform_action_on_element call
    wt,             \* the running wait_for_stable_template call
    cp,             \* the running Comparer.compare / add_state call
    pt,             \* the latest Graph.path call
    rp,             \* the running repeat / reverse chain of the reduced explorers
    tp,             \* an HtmlTemplate and its latest get_updated_template call
    tb,             \* the running generate_tab_order call
    rd,             \* an iteration over the states of the graph by a reader
    ws,             \* a WebAccess: its entry url and the state data it created
    am,             \* an AccessibilityEdgeMetrics and the best values assigned to it
    og,             \* two runs of Controller.build_graph on one interface
    tr,             \* the edges an explorer stored for the actions it tried
    pp,             \* the pooled reduced explorer: its graph and its workers
    vr              \* the two reduced explorers on one page

crawlVars == <<to_visit, seen_states, pending, ability, captures>>

\* HtmlTemplate(): no html strings and _full_tree None (none); kids are the
\* children of the body of _full_tree, upd the latest get_updated_template
\* call as [def, h, from, self, kids].
\* AccessibilityEdgeMetrics(): every field None (-1); best is the best value
\* assigned to the field so far.
MetricFields == {"ability_score", "pcv_score", "nav_score", "act_score",
                 "act_time", "nav_dist", "contrast_ratio", "size"}
NewMetrics == [val |-> [f \in MetricFields |-> -1], best |-> [f \in MetricFields |-> -1]]

\* No reader is iterating.
NoReader == [pc |-> "idle"]
\* A WebAccess before load: no entry state, no current state data.
NoAccess == [entry |-> <<>>, sds |-> {}]
\* No run of build_graph yet.
NoRuns == [pc |-> "idle"]
\* No edge stored, no second try of the reduced explorer under way, the
\* interface in the state being expanded.
NoTries == [edges |-> {}, retried |-> FALSE, changed |-> FALSE,
            in_state |-> TRUE, started |-> TRUE, moved |-> FALSE, tries |-> 0]
\* Neither reduced explorer has been given a page.
NoVariants == [pc |-> "idle"]
\* The pool before build_graph.
NoPool == [pc |-> "idle"]
InitAux ==
    rd = NoReader /\ ws = NoAccess /\ am = NewMetrics /\ og = NoRuns /\ tr = NoTries /\ pp = NoPool
    /\ vr = NoVariants

\* No generate_tab_order call yet.
NoTabOrder == [pc |-> "idle", first_el |-> "None", active_el |-> "None",
               recorded_tabbable |-> 0, tab_els_by_index |-> <<>>,
               num_visits |-> <<>>, halted |-> FALSE, raised |-> FALSE,
               keyboard_trap_el |-> "None", violations |-> <<>>]

\* adds and updates count the calls made so far.
NoUpdate == [def |-> FALSE, h |-> <<>>, from |-> <<>>, self |-> FALSE, kids |-> <<>>]
NewTemplate == [htmlstrings |-> {}, none |-> TRUE, kids |-> <<>>, upd |-> NoUpdate,
                adds |-> 0, updates |-> 0]
moreVars == <<og, tr, pp, vr>>
auxVars == <<rd, ws, am, moreVars>>
callVars == <<pa, wt, cp, pt, rp, tp, tb, auxVars>>

explVars == <<mode, mainPc, queue, unfinished, stop_event, noops, pc, cur, cursor,
              found, owed, raisedBefore, expCount, expanded, crawlVars, callVars>>
vars == <<graphVars, histVars, explVars>>

\* Threads of the pool.
NumWorkers == 2
\* (action, element) pairs a state offers.
NumMoves == 2

Workers == 1..NumWorkers
Threads == 0..NumWorkers

\* No explorer is running (the graph is driven directly).
InitIdle ==
    /\ mode = "none"
    /\ mainPc = "idle"
    /\ queue = <<>>
    /\ unfinished = 0
    /\ stop_event = FALSE
    /\ noops = 0
    /\ pc = [t \in Threads |-> "idle"]
    /\ cur = [t \in Threads |-> NoState]
    /\ cursor = [t \in Threads |-> 0]
    /\ found = [t \in Threads |-> <<>>]
    /\ owed = [t \in Threads |-> 0]
    /\ raisedBefore = [t \in Threads |-> FALSE]
    /\ expCount = <<>>
    /\ expanded = {}
    /\ to_visit = <<>>
    /\ seen_states = {}
    /\ pending = {}
    /\ ability = {}
    /\ captures = TRUE
    /\ pa = [pc |-> "idle"]
    /\ wt = [pc |-> "idle"]
    /\ cp = [pc |-> "idle"]
    /\ pt = [pc |-> "idle"]
    /\ rp = [pc |-> "idle"]
    /\ tp = NewTemplate
    /\ tb = NoTabOrder
    /\ InitAux

(***************************************************************************)
(* The comparator pipeline (comparator.py, web/comparator.py) and the base *)
(* StateData, whose equality runs it.  A full representation is reduced   *)
(* to its element structure, its text and its filler (whitespace and       *)
(* semicolons); the empty string is a representation of its own.           *)
(***************************************************************************)
MaxPipeline == 3
DomParts == 1..2

EmptyRepr == [empty |-> TRUE, structure |-> 0, text |-> 0, filler |-> 0]
Reprs ==
    {EmptyRepr} \cup
    [empty : {FALSE}, structure : DomParts, text : DomParts, filler : {0, 1}]

\* The comparator objects of a configuration, one of each class.
Comparators == {"strict", "structure", "text"}

\* re_sub.sub('', ...): whitespace and semicolons are removed.
re_sub(r) == [r EXCEPT !.filler = 0]

\* comparator.match(state_data1, state_data2): "true", "false" or "raise".
\* The XSLT comparators parse both strings, which fails on an empty one.
match(comparator, r1, r2) ==
    IF comparator = "strict"
    THEN (IF re_sub(r1) = re_sub(r2) THEN "true" ELSE "false")
    ELSE IF r1.empty \/ r2.empty THEN "raise"
    ELSE IF comparator = "structure"
         THEN (IF r1.structure = r2.structure THEN "true" ELSE "false")
         ELSE (IF r1.text = r2.text THEN "true" ELSE "false")

\* CompareFlag: STOP_IF_TRUE and STOP_IF_FALSE as two bits.
CompareFlags == [stop_if_true : BOOLEAN, stop_if_false : BOOLEAN]
Stage(comparator, t, f) ==
    [comparator |-> comparator, flags |-> [stop_if_true |-> t, stop_if_false |-> f]]

\* "is_last = comparator == pipeline[-1][0]".
is_last(pipeline, i) == pipeline[i].comparator = pipeline[Len(pipeline)].comparator

\* Comparer.compare from stage i on; "none" when the loop ends without a
\* return, "raise" for the Exception raised on a comparator's error.
RECURSIVE compare_from(_, _, _, _)
compare_stage(pipeline, i, r1, r2, result) ==
    IF result = "raise" THEN "raise"
    ELSE IF result = "true" /\ (is_last(pipeline, i) \/ pipeline[i].flags.stop_if_true)
         THEN "true"
    ELSE IF result = "false" /\ (is_last(pipeline, i) \/ pipeline[i].flags.stop_if_false)
         THEN "false"
    ELSE compare_from(pipeline, i + 1, r1, r2)

compare_from(pipeline, i, r1, r2) ==
    IF i > Len(pipeline) THEN "none"
    ELSE compare_stage(pipeline, i, r1, r2, match(pipeline[i].comparator, r1, r2))

Comparer_compare(r1, r2, pipeline) == compare_from(pipeline, 1, r1, r2)

\* Comparer.default_pipeline as the accessibility configuration sets it.
default_pipeline ==
    <<Stage("strict", TRUE, FALSE), Stage("structure", FALSE, TRUE),
      Stage("text", FALSE, TRUE)>>

\* The base StateData of an interface that keeps the inherited __eq__.
StateData(r) == [stub |-> FALSE, repr |-> r]

\* StateData.__eq__: the pipeline on the two full representations.
StateData_eq(self, other) ==
    [res |-> Comparer_compare(self.repr, other.repr, default_pipeline),
     other |-> other]

\* "state.data == state_data": the __eq__ of the class of the stored data.
Data_eq(self, other) ==
    IF "repr" \in DOMAIN self THEN StateData_eq(self, other)
    ELSE WebStateData_eq(self, other)

Min(S) == CHOOSE x \in S : \A y \in S : x <= y

\* State.__init__: the id and the counter after it.
State_init_noinc(auto) == [id |-> auto, auto_inc |-> auto]
State_init(auto) == [id |-> auto, auto_inc |-> auto + 1]

\* Graph.find_state_by_data: the states are visited in the iteration order
\* of the set (hash(State) = id, so ascending id); d carries the template a
\* comparison may have given it.
RECURSIVE find_from(_, _, _)
\* One round of the loop: r is the result of state.data == state_data for
\* the state of id i.
find_compared(sts, ids, i, r) ==
    IF r.res = "raise" THEN [res |-> "raise", id |-> NoState, d |-> r.other]
    ELSE IF r.res = "true" THEN [res |-> "found", id |-> i, d |-> r.other]
    ELSE find_from(sts, ids \ {i}, r.other)

find_next(sts, ids, d, i) == find_compared(sts, ids, i, Data_eq(sts[i].data, d))

find_from(sts, ids, d) ==
    IF ids = {} THEN [res |-> "none", id |-> NoState, d |-> d]
    ELSE find_next(sts, ids, d, Min(ids))

find_state_by_data_none(sts, d) == [res |-> "none", id |-> NoState, d |-> d]
find_state_by_data(sts, d) == find_from(sts, DOMAIN sts, d)

\* set.add of a State (hash and equality by id).
states_add(sts, id, d) ==
    IF id \in DOMAIN sts THEN sts
    ELSE [i \in DOMAIN sts \cup {id} |->
            IF i = id THEN [data |-> d, user_paths |-> <<>>] ELSE sts[i]]

\* Graph.add_state: the result and the graph after it.
\* The branch "if not state": s is the new State, fd the state data.
add_state_new_nostart(sts, start, s, fd) ==
    [raised |-> FALSE, was_added |-> TRUE, id |-> s.id, d |-> fd,
     states |-> states_add(sts, s.id, fd),
     auto_inc |-> s.auto_inc,
     start_state |-> start]
add_state_new(sts, start, s, fd) ==
    [raised |-> FALSE, was_added |-> TRUE, id |-> s.id, d |-> fd,
     states |-> states_add(sts, s.id, fd),
     auto_inc |-> s.auto_inc,
     start_state |-> IF start = NoState THEN s.id ELSE start]

\* The body of add_state once find_state_by_data has answered f.
add_state_after_find_readd(sts, auto, start, f) ==
    IF f.res = "none" THEN add_state_new(sts, start, State_init(auto), f.d)
    ELSE [raised |-> f.res = "raise", was_added |-> f.res = "found", id |-> f.id,
          d |-> f.d, states |-> sts, auto_inc |-> auto, start_state |-> start]
add_state_after_find(sts, auto, start, f) ==
    IF f.res = "raise"
    THEN [raised |-> TRUE, was_added |-> FALSE, id |-> NoState, d |-> f.d,
          states |-> sts, auto_inc |-> auto, start_state |-> start]
    ELSE IF f.res = "none" THEN add_state_new(sts, start, State_init(auto), f.d)
    ELSE [raised |-> FALSE, was_added |-> FALSE, id |-> f.id, d |-> f.d,
          states |-> sts, auto_inc |-> auto, start_state |-> start]

add_state(sts, auto, start, d) ==
    add_state_after_find(sts, auto, start, find_state_by_data(sts, d))

(***************************************************************************)
(* SpecStates: the calls that reach the state set of one graph: add_state  *)
(* with the state data the interface produces, and the template            *)
(* augmentation of set_state.  SpecIds: add_state over successive Graph()  *)
(* constructions, each of which resets State.auto_inc.                     *)
(***************************************************************************)
Ids == 0..MaxStates

NoCall == [op |-> "none", d |-> NoTemplate, pre |-> <<>>,
           raised |-> FALSE, was_added |-> FALSE, id |-> NoState,
           raised2 |-> FALSE, was_added2 |-> FALSE, id2 |-> NoState,
           unchanged2 |-> TRUE]

\* HtmlTemplate.get_updated_template (the merge in overwrite mode).
get_updated_template(t, dom) == get_merged_tree(t, HtmlTemplate(dom), TRUE)

\* WebAccess._create_state_data for a page on the entry path: the template
\* of the current state data is carried over.
create_state_data(current, dom) ==
    WebStateData(FALSE, EntryPath, 0, dom,
                 IF current.tmpl.none THEN NoTemplate
                 ELSE get_updated_template(current.tmpl, dom))

\* WebAccess._create_state_data for a page off the entry path (a stub).
create_stub_data(q) == WebStateData(TRUE, StubPath, q, q, NoTemplate)

\* WebAccess.load: the template merged over the page loads, seen being the
\* text values the loads showed.
load_state_data(dom, seen) ==
    WebStateData(FALSE, EntryPath, 0, dom,
                 [none |-> FALSE, vals |-> seen, unst |-> Cardinality(seen) > 1])

Count(c, id) == [c EXCEPT ![id] = IF @ < 2 THEN @ + 1 ELSE @]

\* One add_state call with data d, and its record in the history.
CallAddState(d) ==
    LET r == add_state(states, auto_inc, start_state, d)
    IN  /\ r.was_added => auto_inc < MaxStates
        /\ states' = r.states
        /\ auto_inc' = r.auto_inc
        /\ start_state' = r.start_state
        /\ idCount' = IF r.was_added THEN Count(idCount, r.id) ELSE idCount
        /\ epochCount' = IF r.was_added THEN Count(epochCount, r.id) ELSE epochCount
        /\ last' = [NoCall EXCEPT !.op = "add", !.d = r.d, !.pre = states,
                                  !.raised = r.raised, !.was_added = r.was_added,
                                  !.id = r.id]
        /\ UNCHANGED <<edgeObjs, edges, graphs, observed>>
        /\ UNCHANGED explVars

\* build / build_graph on an empty graph: load, then add_state.
SLoad ==
    /\ DOMAIN states = {}
    /\ \E v \in Values : \E seen \in SUBSET Values :
         /\ v \in seen
         /\ CallAddState(load_state_data(v, seen))

\* The explorer's add_state for the data an action produced from state src.
SAddState ==
    \E src \in DOMAIN states : \E v \in Values :
        LET d == create_state_data(states[src].data, v)
        IN  /\ ~states[src].data.stub
            /\ WebStateData_eq(d, states[src].data).res = "false"
            /\ CallAddState(d)

\* The explorer's add_state for a stub page an action led to.
SAddStub ==
    \E src \in DOMAIN states : \E q \in Values :
        /\ ~states[src].data.stub
        /\ CallAddState(create_stub_data(q))

\* add_state called again with the state data object of the latest call.
SAddStateAgain ==
    /\ last.op = "add"
    /\ ~last.raised
    /\ LET r == add_state(states, auto_inc, start_state, last.d)
       IN  /\ r.was_added => auto_inc < MaxStates
           /\ states' = r.states
           /\ auto_inc' = r.auto_inc
           /\ start_state' = r.start_state
           /\ idCount' = IF r.was_added THEN Count(idCount, r.id) ELSE idCount
           /\ epochCount' = IF r.was_added THEN Count(epochCount, r.id) ELSE epochCount
           /\ last' = [last EXCEPT !.op = "again", !.raised2 = r.raised,
                                   !.was_added2 = r.was_added, !.id2 = r.id,
                                   !.unchanged2 = (r.states = states)]
    /\ UNCHANGED <<edgeObjs, edges, graphs, observed>>
    /\ UNCHANGED explVars

\* WebAccess.set_state: the entry page is loaded again (showing text v) and
\* its template is added to the entry state's template.
SSetState ==
    /\ start_state # NoState
    /\ \E v \in Values :
         states' = [states EXCEPT ![start_state].data.tmpl =
                        add_template(@, HtmlTemplate(v))]
    /\ last' = NoCall
    /\ UNCHANGED <<auto_inc, start_state, edgeObjs, edges, idCount, epochCount,
                   graphs, observed>>
    /\ UNCHANGED explVars

\* Graph(): a new graph, which resets State.auto_inc (build_graph, reset_graph).
SNewGraph ==
    /\ graphs < MaxGraphs
    /\ DOMAIN states # {}
    /\ states' = <<>>
    /\ start_state' = NoState
    /\ auto_inc' = 0
    /\ epochCount' = [i \in Ids |-> 0]
    /\ graphs' = graphs + 1
    /\ last' = NoCall
    /\ UNCHANGED <<edgeObjs, edges, idCount, observed>>
    /\ UNCHANGED explVars

\* MultiController.__init__ / Controller.build_graph: a fresh Graph().
InitGraph ==
    /\ auto_inc = 0
    /\ states = <<>>
    /\ start_state = NoState
    /\ edgeObjs = <<>>
    /\ edges = {}
    /\ idCount = [i \in Ids |-> 0]
    /\ epochCount = [i \in Ids |-> 0]
    /\ graphs = 1
    /\ last = NoCall
    /\ observed = <<>>

NextStates ==
    \/ SLoad
    \/ SAddState
    \/ SAddStub
    \/ SAddStateAgain
    \/ SSetState

InitStates == InitGraph /\ InitIdle

SpecStates == InitStates /\ [][NextStates]_vars

\* SpecIds: the id counter over successive graphs of one process.
NextIds ==
    \/ SLoad
    \/ SAddState
    \/ SAddStub
    \/ SNewGraph

SpecIds == InitStates /\ [][NextIds]_vars

\* C6 (as stated): a second add_state with the same state data returns the
\* same state, reports that nothing was inserted and leaves the state set
\* unchanged.
C6_AddStateIdempotent ==
    last.op = "again" =>
        /\ ~last.raised2
        /\ ~last.was_added2
        /\ last.id2 = last.id
        /\ last.unchanged2

\* The stored states that compare equal to d, each comparison taken alone.
EqualStored(sts, d) == {i \in DOMAIN sts : DataEqual(sts[i].data, d)}

C8_IdsNeverReused == \A i \in Ids : idCount[i] <= 1

\* C8 (amended): between two resets of State.auto_inc, the State objects
\* created by add_state receive pairwise distinct ids.
C8_IdsUniquePerEpoch == \A i \in Ids : epochCount[i] <= 1

\* After a counter reset, two states have been created in the new graph.
C8_Witness ==
    /\ graphs > 1
    /\ epochCount[0] = 1
    /\ epochCount[1] = 1
    /\ idCount[0] = 2

(***************************************************************************)
(* Edges and their per-user metrics.                                       *)
(***************************************************************************)
Users == {"build", "crawl"}
Scores == 1..MaxScore
\* EdgeMetrics._ability_score of None (0 is the score 0.0).
NoScore == -1
TheElement == 1
TheAction == 1

\* EdgeMetrics, reduced to its ability score.
EdgeMetrics(score) == [ability_score |-> score]

\* Edge.__init__.
Edge(s1, s2, element, action) ==
    [state1 |-> s1, state2 |-> s2, element |-> element, action |-> action,
     user_metrics |-> <<>>]

\* Edge.__eq__ (and __hash__): the four key fields.
Edge_eq(a, b) ==
    /\ a.state1 = b.state1
    /\ a.state2 = b.state2
    /\ a.element = b.element
    /\ a.action = b.action

EdgeKey(e) == <<e.state1, e.state2, e.element, e.action>>

\* Graph.add_edge: a new Edge object is created and returned; the set keeps
\* the object it already holds when an equal one is present.
add_edge_detached(objs, stored, s1, s2, element, action) ==
    [edgeObjs |-> Append(objs, Edge(s1, s2, element, action)),
     edges |-> stored,
     edge |-> Len(objs) + 1]
add_edge(objs, stored, s1, s2, element, action) ==
    LET e == Edge(s1, s2, element, action)
        n == Len(objs) + 1
    IN  [edgeObjs |-> Append(objs, e),
         edges |-> IF \E i \in stored : Edge_eq(objs[i], e) THEN stored
                   ELSE stored \cup {n},
         edge |-> n]

\* Edge.add_data_for_user on the user_metrics of one edge; comparing with a
\* None score raises TypeError and leaves the metrics as they were.
add_data_for_user_replace(um, u, m) ==
    [x \in DOMAIN um \cup {u} |-> IF x = u THEN m ELSE um[x]]
add_data_for_user(um, u, m) ==
    IF u \notin DOMAIN um
    THEN [x \in DOMAIN um \cup {u} |-> IF x = u THEN m ELSE um[x]]
    ELSE IF m.ability_score = NoScore \/ um[u].ability_score = NoScore THEN um
    ELSE IF m.ability_score > um[u].ability_score
         THEN [um EXCEPT ![u] = m]
         ELSE um

\* EdgeMetrics.ability_score setter.
set_ability_score(m, score) ==
    IF m.ability_score = NoScore \/ score > m.ability_score
    THEN [m EXCEPT !.ability_score = score]
    ELSE m

Max2(a, b) == IF a > b THEN a ELSE b

\* The highest score reported so far for a transition and a user.
Reported(key, u) == IF <<key, u>> \in DOMAIN observed THEN observed[<<key, u>>] ELSE 0

Report(key, u, score) ==
    [x \in DOMAIN observed \cup {<<key, u>>} |->
        IF x = <<key, u>> THEN Max2(Reported(key, u), score) ELSE observed[x]]
(***************************************************************************)
(* SpecEdges: add_edge, add_data_for_user and score assignments on a graph *)
(* that holds two states.                                                  *)
(***************************************************************************)
NoEdgeCall == [op |-> "none", lower |-> FALSE]

TwoStates ==
    [i \in {0, 1} |->
        [data |-> WebStateData(FALSE, EntryPath, 0, i + 1, HtmlTemplate(i + 1)),
         user_paths |-> <<>>]]

InitEdges ==
    /\ InitIdle
    /\ auto_inc = 2
    /\ states = TwoStates
    /\ start_state = 0
    /\ edgeObjs = <<>>
    /\ edges = {}
    /\ idCount = [i \in Ids |-> IF i < 2 THEN 1 ELSE 0]
    /\ epochCount = [i \in Ids |-> IF i < 2 THEN 1 ELSE 0]
    /\ graphs = 1
    /\ last = NoEdgeCall
    /\ observed = <<>>

ScoreOf(e, u) ==
    IF u \in DOMAIN e.user_metrics THEN e.user_metrics[u].ability_score ELSE NoScore

\* graph.add_edge(...) on its own.
EAddEdge ==
    /\ Len(edgeObjs) < MaxEdges
    /\ \E s1 \in {start_state}, s2 \in DOMAIN states :
         LET r == add_edge(edgeObjs, edges, s1, s2, TheElement, TheAction)
         IN  /\ edgeObjs' = r.edgeObjs
             /\ edges' = r.edges
             /\ last' = NoEdgeCall
    /\ UNCHANGED <<auto_inc, states, start_state, idCount, epochCount, graphs,
                   observed>>
    /\ UNCHANGED explVars

\* The explorers' report of one observation:
\*   new_edge = graph.add_edge(state, new_state, element, action)
\*   new_edge.add_data_for_user(user, edge_metrics)
EObserve ==
    /\ Len(edgeObjs) < MaxEdges
    /\ \E s1 \in {start_state}, s2 \in DOMAIN states, u \in Users, sc \in Scores :
         LET r == add_edge(edgeObjs, edges, s1, s2, TheElement, TheAction)
             e == r.edgeObjs[r.edge]
         IN  /\ edgeObjs' = [r.edgeObjs EXCEPT ![r.edge].user_metrics =
                                add_data_for_user(@, u, EdgeMetrics(sc))]
             /\ edges' = r.edges
             /\ observed' = Report(EdgeKey(e), u, sc)
             /\ last' = NoEdgeCall
    /\ UNCHANGED <<auto_inc, states, start_state, idCount, epochCount, graphs>>
    /\ UNCHANGED explVars

\* edge.add_data_for_user(user, edge_metrics) on an Edge object obtained
\* earlier.
EAddData ==
    /\ \E i \in 1..Len(edgeObjs), u \in Users, sc \in Scores :
         /\ edgeObjs' = [edgeObjs EXCEPT ![i].user_metrics =
                            add_data_for_user(@, u, EdgeMetrics(sc))]
         /\ observed' = Report(EdgeKey(edgeObjs[i]), u, sc)
         /\ last' = IF sc < ScoreOf(edgeObjs[i], u)
                     THEN [op |-> "data", lower |-> TRUE] ELSE NoEdgeCall
    /\ UNCHANGED <<auto_inc, states, start_state, edges, idCount, epochCount,
                   graphs>>
    /\ UNCHANGED explVars

\* edge.user_metrics[user].ability_score = score.
ESetScore ==
    /\ \E i \in 1..Len(edgeObjs), sc \in Scores :
       \E u \in DOMAIN edgeObjs[i].user_metrics :
         /\ edgeObjs' = [edgeObjs EXCEPT ![i].user_metrics[u] =
                            set_ability_score(@, sc)]
         /\ observed' = Report(EdgeKey(edgeObjs[i]), u, sc)
         /\ last' = IF sc < ScoreOf(edgeObjs[i], u)
                     THEN [op |-> "set", lower |-> TRUE] ELSE NoEdgeCall
    /\ UNCHANGED <<auto_inc, states, start_state, edges, idCount, epochCount,
                   graphs>>
    /\ UNCHANGED explVars

NextEdges ==
    \/ EAddEdge
    \/ EObserve
    \/ EAddData
    \/ ESetScore

SpecEdges == InitEdges /\ [][NextEdges]_vars

\* None counts as below every score.
ScoreLE(a, b) == a = NoScore \/ (b # NoScore /\ a <= b)

C12_EveryAddEdgeStored ==
    \A i \in 1..Len(edgeObjs) : i \in {j \in edges : edgeObjs[j].state1 = edgeObjs[i].state1}

\* The Edge object the graph holds for a key (0 when there is none).
StoredEdge(key) ==
    IF \E i \in edges : EdgeKey(edgeObjs[i]) = key
    THEN CHOOSE i \in edges : EdgeKey(edgeObjs[i]) = key
    ELSE 0

\* C10 (as stated): for every transition and user, the metrics the graph
\* holds after any sequence of reports are those of the report with the
\* highest ability score.
C10_GraphHoldsMaxObservation ==
    \A x \in DOMAIN observed :
        LET i == StoredEdge(x[1])
        IN  /\ i # 0
            /\ ScoreOf(edgeObjs[i], x[2]) = observed[x]

(***************************************************************************)
(* The explorers: build / Worker.run / ThreadPool (pooled) and             *)
(* Controller.build_graph (single-threaded).                               *)
(***************************************************************************)
BuildUser == "build"

BuildTask(s) == [kind |-> "build", state |-> s]
NoopTask == [kind |-> "noop", state |-> NoState]

\* State.set_user_path: the first path recorded for a user is kept.
set_user_path(sts, id, u, path) ==
    IF u \in DOMAIN sts[id].user_paths THEN sts
    ELSE [sts EXCEPT ![id].user_paths =
            [x \in DOMAIN @ \cup {u} |-> IF x = u THEN path ELSE @[x]]]

\* State.get_user_path (<<>> stands in when the user has no path).
get_user_path(sts, id, u) ==
    IF u \in DOMAIN sts[id].user_paths THEN sts[id].user_paths[u] ELSE <<>>

\* The entry page as the explorers load it.
EntryData == load_state_data(1, {1})

\* The state data an action on an element of state s can produce.
PageData(s) ==
    {d \in {create_state_data(states[s].data, v) : v \in Values} :
        WebStateData_eq(d, states[s].data).res = "false"}
    \cup {create_stub_data(1)}

\* Bump of the per-id expansion count.
Expanding(id) ==
    [x \in DOMAIN expCount \cup {id} |->
        IF x = id THEN (IF id \in DOMAIN expCount THEN expCount[id] + 1 ELSE 1)
        ELSE expCount[x]]

\* The graph update of one successful attempt of build / build_graph:
\*   was_added, new_state = graph.add_state(new_state_data)
\*   new_edge = graph.add_edge(state, new_state, el, action)
\*   new_edge.add_data_for_user(user, edge_metrics)
record_transition(s, d, el) ==
    LET a == add_state(states, auto_inc, start_state, d)
        e == add_edge(edgeObjs, edges, s, a.id, el, TheAction)
    IN  [raised |-> a.raised, was_added |-> a.was_added, id |-> a.id,
         stub |-> d.stub, edge |-> e.edge,
         states |-> a.states, auto_inc |-> a.auto_inc, start_state |-> a.start_state,
         edgeObjs |-> [e.edgeObjs EXCEPT ![e.edge].user_metrics =
                          add_data_for_user(@, BuildUser, EdgeMetrics(1))],
         edges |-> e.edges]

\* The attempt of thread t on its current state with outcome d, up to and
\* including set_user_path when complete is TRUE, and cut short after
\* add_data_for_user by an exception (get_screenshot, generate_tab_order)
\* when it is FALSE.
AttemptGraph(t, d, complete) ==
    LET r == record_transition(cur[t], d, cursor[t])
    IN  /\ ~r.raised
        /\ r.was_added => auto_inc < MaxStates
        /\ auto_inc' = r.auto_inc
        /\ start_state' = r.start_state
        /\ edgeObjs' = r.edgeObjs
        /\ edges' = r.edges
        /\ states' = IF r.was_added /\ complete
                     THEN set_user_path(r.states, r.id, BuildUser,
                              Append(get_user_path(r.states, cur[t], BuildUser), r.edge))
                     ELSE r.states
        /\ idCount' = IF r.was_added THEN Count(idCount, r.id) ELSE idCount
        /\ epochCount' = IF r.was_added THEN Count(epochCount, r.id) ELSE epochCount

\* The state an attempt leaves to be expanded later (<<>> when none).
NewFound_any(d) ==
    LET a == add_state(states, auto_inc, start_state, d)
    IN  IF a.was_added THEN <<a.id>> ELSE <<>>
NewFound(d) ==
    LET a == add_state(states, auto_inc, start_state, d)
    IN  IF a.was_added /\ ~d.stub THEN <<a.id>> ELSE <<>>

\* Worker.run: where the try statement leaves the worker; the finally clause
\* runs task_done whether or not the task function raised.
run_exit_pc_nofinally(raised) == IF raised THEN "check" ELSE "fin"
run_exit_pc(raised) == "fin"

InitRun ==
    /\ InitGraph
    /\ mode \in {"pool", "single"}
    /\ mainPc = IF mode = "pool" THEN "add_task" ELSE "build"
    /\ queue = <<>>
    /\ unfinished = 0
    /\ stop_event = FALSE
    /\ noops = 0
    /\ pc = [t \in Threads |-> IF mode = "pool" /\ t \in Workers THEN "check" ELSE "idle"]
    /\ cur = [t \in Threads |-> NoState]
    /\ cursor = [t \in Threads |-> 0]
    /\ found = [t \in Threads |-> <<>>]
    /\ owed = [t \in Threads |-> 0]
    /\ raisedBefore = [t \in Threads |-> FALSE]
    /\ expCount = <<>>
    /\ expanded = {}
    /\ to_visit = <<>>
    /\ seen_states = {}
    /\ pending = {}
    /\ ability = {}
    /\ pa = [pc |-> "idle"]
    /\ wt = [pc |-> "idle"]
    /\ cp = [pc |-> "idle"]
    /\ pt = [pc |-> "idle"]
    /\ rp = [pc |-> "idle"]
    /\ tp = NewTemplate
    /\ tb = NoTabOrder
    /\ InitAux

\* The explorers on WebAccess, whose perform_action_on_element captures the
\* build data of every first visit.
InitExplore == InitRun /\ captures = TRUE

graphFrame == <<auto_inc, states, start_state, edgeObjs, edges, idCount, epochCount>>
constHist == <<graphs, last, observed, crawlVars, callVars>>

\* ThreadPool.wait_completion: self.queue.join() returns once every task
\* put on the queue has been marked done.
wait_completion_queue_empty(q, unf) == q = <<>>
wait_completion(q, unf) == unf = 0

\* MultiController.build_graph: pool.add_task(build, ...).
MAddTask ==
    /\ mode = "pool" /\ mainPc = "add_task"
    /\ queue' = Append(queue, BuildTask(NoState))
    /\ unfinished' = unfinished + 1
    /\ mainPc' = "join"
    /\ UNCHANGED <<graphFrame, constHist, mode, stop_event, noops, pc, cur, cursor,
                   found, owed, raisedBefore, expCount, expanded>>

\* MultiController.build_graph: pool.wait_completion() returns, and with it
\* build_graph.
MWaitCompletion ==
    /\ mode = "pool" /\ mainPc = "join"
    /\ wait_completion(queue, unfinished)
    /\ mainPc' = "returned"
    /\ UNCHANGED <<graphFrame, constHist, mode, queue, unfinished, stop_event, noops,
                   pc, cur, cursor, found, owed, raisedBefore, expCount, expanded>>

\* ThreadPool.stop: stop_event.set().
MStopSet ==
    /\ mode = "pool" /\ mainPc = "returned"
    /\ stop_event' = TRUE
    /\ mainPc' = "stop_put"
    /\ UNCHANGED <<graphFrame, constHist, mode, queue, unfinished, noops, pc, cur,
                   cursor, found, owed, raisedBefore, expCount, expanded>>

\* ThreadPool.stop: one queue.put((noop, [], {})) of the loop over the workers.
MStopPut ==
    /\ mode = "pool" /\ mainPc = "stop_put"
    /\ queue' = Append(queue, NoopTask)
    /\ unfinished' = unfinished + 1
    /\ noops' = noops + 1
    /\ mainPc' = IF noops + 1 = NumWorkers THEN "stop_join" ELSE "stop_put"
    /\ UNCHANGED <<graphFrame, constHist, mode, stop_event, pc, cur, cursor, found,
                   owed, raisedBefore, expCount, expanded>>

\* ThreadPool.stop: queue.join() returns.
MStopJoin ==
    /\ mode = "pool" /\ mainPc = "stop_join"
    /\ unfinished = 0
    /\ mainPc' = "stopped"
    /\ UNCHANGED <<graphFrame, constHist, mode, queue, unfinished, stop_event, noops,
                   pc, cur, cursor, found, owed, raisedBefore, expCount, expanded>>

\* Worker.run: the loop condition "while not self.stop_event.is_set()".
WCheck(w) ==
    /\ pc[w] = "check"
    /\ pc' = [pc EXCEPT ![w] = IF stop_event THEN "exit" ELSE "get"]
    /\ UNCHANGED <<graphFrame, constHist, mode, mainPc, queue, unfinished, stop_event,
                   noops, cur, cursor, found, owed, raisedBefore, expCount, expanded>>

\* Worker.run: queue.get() of a no-op; noop returns [] and the finally
\* clause is next.
WGetNoop(w) ==
    /\ pc[w] = "get"
    /\ queue # <<>>
    /\ Head(queue).kind = "noop"
    /\ queue' = Tail(queue)
    /\ owed' = [owed EXCEPT ![w] = @ + 1]
    /\ pc' = [pc EXCEPT ![w] = run_exit_pc(FALSE)]
    /\ UNCHANGED <<graphFrame, constHist, mode, mainPc, unfinished, stop_event, noops,
                   cur, cursor, found, raisedBefore, expCount, expanded>>

\* Worker.run: queue.get() of the first build task (state is None) whose
\* access.load fails: build returns [].
WGetLoadFails(w) ==
    /\ pc[w] = "get"
    /\ queue # <<>>
    /\ Head(queue) = BuildTask(NoState)
    /\ queue' = Tail(queue)
    /\ owed' = [owed EXCEPT ![w] = @ + 1]
    /\ pc' = [pc EXCEPT ![w] = run_exit_pc(FALSE)]
    /\ UNCHANGED <<graphFrame, constHist, mode, mainPc, unfinished, stop_event, noops,
                   cur, cursor, found, raisedBefore, expCount, expanded>>

\* Worker.run: queue.get() of the first build task; build loads the entry
\* point, adds its state and gives it the empty user path.
WGetLoad(w) ==
    /\ pc[w] = "get"
    /\ queue # <<>>
    /\ Head(queue) = BuildTask(NoState)
    /\ LET a == add_state(states, auto_inc, start_state, EntryData)
       IN  /\ ~a.raised
           /\ states' = set_user_path(a.states, a.id, BuildUser, <<>>)
           /\ auto_inc' = a.auto_inc
           /\ start_state' = a.start_state
           /\ idCount' = IF a.was_added THEN Count(idCount, a.id) ELSE idCount
           /\ epochCount' = IF a.was_added THEN Count(epochCount, a.id) ELSE epochCount
           /\ cur' = [cur EXCEPT ![w] = a.id]
           /\ expCount' = Expanding(a.id)
    /\ queue' = Tail(queue)
    /\ owed' = [owed EXCEPT ![w] = @ + 1]
    /\ cursor' = [cursor EXCEPT ![w] = NumMoves]
    /\ found' = [found EXCEPT ![w] = <<>>]
    /\ pc' = [pc EXCEPT ![w] = "run"]
    /\ UNCHANGED <<edgeObjs, edges, constHist, mode, mainPc, unfinished, stop_event,
                   noops, raisedBefore, expanded>>

\* Worker.run: queue.get() of a deferred build task; build sets the state.
WGetBuild(w) ==
    /\ pc[w] = "get"
    /\ queue # <<>>
    /\ Head(queue).kind = "build"
    /\ Head(queue).state # NoState
    /\ queue' = Tail(queue)
    /\ owed' = [owed EXCEPT ![w] = @ + 1]
    /\ cur' = [cur EXCEPT ![w] = Head(queue).state]
    /\ expCount' = Expanding(Head(queue).state)
    /\ cursor' = [cursor EXCEPT ![w] = NumMoves]
    /\ found' = [found EXCEPT ![w] = <<>>]
    /\ pc' = [pc EXCEPT ![w] = "run"]
    /\ UNCHANGED <<graphFrame, constHist, mode, mainPc, unfinished, stop_event, noops,
                   raisedBefore, expanded>>

\* The thread moves on to its next (action, element) pair.
NextPair(t) == cursor' = [cursor EXCEPT ![t] = @ - 1]

\* build: an attempt that scores 0 or leaves the state data unchanged.
WAttemptNone(w) ==
    /\ pc[w] = "run" /\ cursor[w] > 0
    /\ NextPair(w)
    /\ UNCHANGED <<graphFrame, constHist, mode, mainPc, queue, unfinished, stop_event,
                   noops, pc, cur, found, owed, raisedBefore, expCount, expanded>>

\* build: an attempt that changes the state data: the graph is updated and
\* a new non-stub state joins states_found.
WAttemptChange(w) ==
    /\ pc[w] = "run" /\ cursor[w] > 0
    /\ \E d \in PageData(cur[w]) :
         /\ AttemptGraph(w, d, TRUE)
         /\ found' = [found EXCEPT ![w] = @ \o NewFound(d)]
    /\ NextPair(w)
    /\ UNCHANGED <<constHist, mode, mainPc, queue, unfinished, stop_event, noops, pc,
                   cur, owed, raisedBefore, expCount, expanded>>

\* build: perform_action_on_element (or set_state) raises; Worker.run
\* catches the exception, and states_found is lost with the call.
WAttemptRaises(w) ==
    /\ pc[w] = "run" /\ cursor[w] > 0
    /\ pc' = [pc EXCEPT ![w] = run_exit_pc(TRUE)]
    /\ found' = [found EXCEPT ![w] = <<>>]
    /\ raisedBefore' = [raisedBefore EXCEPT ![w] = TRUE]
    /\ UNCHANGED <<graphFrame, constHist, mode, mainPc, queue, unfinished, stop_event,
                   noops, cur, cursor, owed, expCount, expanded>>

\* build: an exception after the graph update of an attempt (get_screenshot,
\* generate_tab_order), caught by Worker.run.
WAttemptRaisesLate(w) ==
    /\ pc[w] = "run" /\ cursor[w] > 0
    /\ \E d \in PageData(cur[w]) :
         /\ add_state(states, auto_inc, start_state, d).was_added
         /\ AttemptGraph(w, d, FALSE)
    /\ pc' = [pc EXCEPT ![w] = run_exit_pc(TRUE)]
    /\ found' = [found EXCEPT ![w] = <<>>]
    /\ raisedBefore' = [raisedBefore EXCEPT ![w] = TRUE]
    /\ UNCHANGED <<constHist, mode, mainPc, queue, unfinished, stop_event, noops, cur,
                   cursor, owed, expCount, expanded>>

\* Worker.run: build returned with no state found; the finally clause is next.
WReturnEmpty(w) ==
    /\ pc[w] = "run" /\ cursor[w] = 0
    /\ found[w] = <<>>
    /\ expanded' = expanded \cup {cur[w]}
    /\ pc' = [pc EXCEPT ![w] = run_exit_pc(FALSE)]
    /\ UNCHANGED <<graphFrame, constHist, mode, mainPc, queue, unfinished, stop_event,
                   noops, cur, cursor, found, owed, raisedBefore, expCount>>

\* Worker.run: build returned states; the last one is continued in this
\* thread, the others are put on the queue.
WReturnPartition(w) ==
    /\ pc[w] = "run" /\ cursor[w] = 0
    /\ found[w] # <<>>
    /\ expanded' = expanded \cup {cur[w]}
    /\ LET n == Len(found[w])
           continue_state == found[w][n]
           defer == SubSeq(found[w], 1, n - 1)
       IN  /\ queue' = queue \o [i \in 1..(n - 1) |-> BuildTask(defer[i])]
           /\ unfinished' = unfinished + (n - 1)
           /\ cur' = [cur EXCEPT ![w] = continue_state]
           /\ expCount' = Expanding(continue_state)
    /\ cursor' = [cursor EXCEPT ![w] = NumMoves]
    /\ found' = [found EXCEPT ![w] = <<>>]
    /\ UNCHANGED <<graphFrame, constHist, mode, mainPc, stop_event, noops, pc, owed,
                   raisedBefore>>

\* Worker.run: the finally clause, queue.task_done().
WTaskDone(w) ==
    /\ pc[w] = "fin"
    /\ unfinished' = unfinished - 1
    /\ owed' = [owed EXCEPT ![w] = @ - 1]
    /\ pc' = [pc EXCEPT ![w] = "check"]
    /\ UNCHANGED <<graphFrame, constHist, mode, mainPc, queue, stop_event, noops, cur,
                   cursor, found, raisedBefore, expCount, expanded>>

\* Controller.build_graph up to the loop: Graph(), add_state of the current
\* state data, the empty user path, states_to_visit = deque([start_state]).
SBuildStart ==
    /\ mode = "single" /\ mainPc = "build"
    /\ LET a == add_state(<<>>, 0, NoState, EntryData)
       IN  /\ states' = set_user_path(a.states, a.id, BuildUser, <<>>)
           /\ auto_inc' = a.auto_inc
           /\ start_state' = a.start_state
           /\ idCount' = Count(idCount, a.id)
           /\ epochCount' = Count([i \in Ids |-> 0], a.id)
           /\ queue' = <<BuildTask(a.id)>>
    /\ mainPc' = "pop"
    /\ UNCHANGED <<edgeObjs, edges, constHist, mode, unfinished, stop_event, noops, pc,
                   cur, cursor, found, owed, raisedBefore, expCount, expanded>>

\* Controller.build_graph: states_to_visit.pop() and set_state.
SPop ==
    /\ mode = "single" /\ mainPc = "pop"
    /\ queue # <<>>
    /\ queue' = Tail(queue)
    /\ cur' = [cur EXCEPT ![0] = Head(queue).state]
    /\ cursor' = [cursor EXCEPT ![0] = NumMoves]
    /\ expCount' = Expanding(Head(queue).state)
    /\ mainPc' = "run"
    /\ UNCHANGED <<graphFrame, constHist, mode, unfinished, stop_event, noops, pc, found,
                   owed, raisedBefore, expanded>>

\* Controller.build_graph: set_state fails after the pop, RuntimeError.
SPopRaises ==
    /\ mode = "single" /\ mainPc = "pop"
    /\ queue # <<>>
    /\ queue' = Tail(queue)
    /\ mainPc' = "raised"
    /\ UNCHANGED <<graphFrame, constHist, mode, unfinished, stop_event, noops, pc, cur,
                   cursor, found, owed, raisedBefore, expCount, expanded>>

\* Controller.build_graph: states_to_visit is empty, the graph is returned.
SReturn ==
    /\ mode = "single" /\ mainPc = "pop"
    /\ queue = <<>>
    /\ mainPc' = "returned"
    /\ UNCHANGED <<graphFrame, constHist, mode, queue, unfinished, stop_event, noops, pc,
                   cur, cursor, found, owed, raisedBefore, expCount, expanded>>

\* Controller.build_graph: an attempt that scores 0 or changes nothing.
SAttemptNone ==
    /\ mode = "single" /\ mainPc = "run" /\ cursor[0] > 0
    /\ NextPair(0)
    /\ UNCHANGED <<graphFrame, constHist, mode, mainPc, queue, unfinished, stop_event,
                   noops, pc, cur, found, owed, raisedBefore, expCount, expanded>>

\* Controller.build_graph: an attempt that changes the state data; a new
\* non-stub state is appended (appendleft) to states_to_visit.
SAttemptChange ==
    /\ mode = "single" /\ mainPc = "run" /\ cursor[0] > 0
    /\ \E d \in PageData(cur[0]) :
         /\ AttemptGraph(0, d, TRUE)
         /\ queue' = queue \o [i \in 1..Len(NewFound(d)) |-> BuildTask(NewFound(d)[i])]
    /\ NextPair(0)
    /\ UNCHANGED <<constHist, mode, mainPc, unfinished, stop_event, noops, pc, cur,
                   found, owed, raisedBefore, expCount, expanded>>

\* Controller.build_graph: an exception leaves build_graph.
SAttemptRaises ==
    /\ mode = "single" /\ mainPc = "run" /\ cursor[0] > 0
    /\ mainPc' = "raised"
    /\ UNCHANGED <<graphFrame, constHist, mode, queue, unfinished, stop_event, noops, pc,
                   cur, cursor, found, owed, raisedBefore, expCount, expanded>>

\* Controller.build_graph: every pair of the state has been tried.
SExpanded ==
    /\ mode = "single" /\ mainPc = "run" /\ cursor[0] = 0
    /\ expanded' = expanded \cup {cur[0]}
    /\ mainPc' = "pop"
    /\ UNCHANGED <<graphFrame, constHist, mode, queue, unfinished, stop_event, noops, pc,
                   cur, cursor, found, owed, raisedBefore, expCount>>

Next ==
    \/ MAddTask
    \/ MWaitCompletion
    \/ MStopSet
    \/ MStopPut
    \/ MStopJoin
    \/ \E w \in Workers : WCheck(w)
    \/ \E w \in Workers : WGetNoop(w)
    \/ \E w \in Workers : WGetLoadFails(w)
    \/ \E w \in Workers : WGetLoad(w)
    \/ \E w \in Workers : WGetBuild(w)
    \/ \E w \in Workers : WAttemptNone(w)
    \/ \E w \in Workers : WAttemptChange(w)
    \/ \E w \in Workers : WAttemptRaises(w)
    \/ \E w \in Workers : WAttemptRaisesLate(w)
    \/ \E w \in Workers : WReturnEmpty(w)
    \/ \E w \in Workers : WReturnPartition(w)
    \/ \E w \in Workers : WTaskDone(w)
    \/ SBuildStart
    \/ SPop
    \/ SPopRaises
    \/ SReturn
    \/ SAttemptNone
    \/ SAttemptChange
    \/ SAttemptRaises
    \/ SExpanded

Spec == InitExplore /\ [][Next]_vars


\* C38: build_graph of the MultiController returns only when the queue is
\* empty and no worker is running a task, the tasks put by workers included,
\* and once it has returned no state and no edge is added to the graph.
C38_ReturnsWhenQuiescent ==
    /\ [](mode = "pool" /\ mainPc = "returned" =>
            /\ queue = <<>>
            /\ \A w \in Workers : pc[w] \notin {"run", "fin"})
    /\ [][mode = "pool" /\ mainPc \notin {"add_task", "join"} =>
            /\ states' = states
            /\ edgeObjs' = edgeObjs
            /\ edges' = edges]_vars

\* build_graph has returned after the expansion of the start state found
\* two states, one of which a worker put on the queue, and both were
\* expanded.
C38_Witness ==
    /\ mode = "pool" /\ mainPc = "returned"
    /\ \E a, b \in expanded :
         /\ a # b /\ a # start_state /\ b # start_state
         /\ \A x \in {a, b} :
              \E j \in edges : edgeObjs[j].state1 = start_state /\ edgeObjs[j].state2 = x

\* C1: in any build run, single-threaded or pooled, no state's expansion
\* begins more than once.
C1_AtMostOnceExpansion == \A i \in DOMAIN expCount : expCount[i] <= 1

\* In a pooled run a state has been reached by two stored edges and its
\* expansion was begun.
C1_Witness ==
    /\ mode = "pool"
    /\ \E i \in DOMAIN expCount :
         /\ expCount[i] = 1
         /\ Cardinality({j \in edges : edgeObjs[j].state2 = i}) > 1

\* C2 (as stated): when build_graph has returned, every non-stub state of
\* the graph has had all of its (action, element) pairs tried, also in runs
\* in which a worker caught an exception.
C2_AllExpandedAtReturn ==
    mainPc = "returned" =>
        \A i \in DOMAIN states : ~states[i].data.stub => i \in expanded

\* Edge.supports_user.
supports_user(e, u) == u \in DOMAIN e.user_metrics

\* The states reachable from the set S over stored edges that support u.
RECURSIVE ReachableFrom(_, _)
ReachableFrom(S, u) ==
    LET N == S \cup {edgeObjs[j].state2 :
                        j \in {k \in edges : /\ edgeObjs[k].state1 \in S
                                             /\ supports_user(edgeObjs[k], u)}}
    IN  IF N = S THEN S ELSE ReachableFrom(N, u)

\* C3: when build_graph has returned, every state of the graph is reachable
\* from start_state over stored edges that support the build user.
C3_AllReachableAtReturn ==
    mainPc = "returned" =>
        /\ DOMAIN states # {} => start_state \in DOMAIN states
        /\ DOMAIN states \subseteq ReachableFrom({start_state}, BuildUser)

\* build_graph has returned a graph with a state that no edge leaving the
\* start state reaches.
C3_Witness ==
    /\ mainPc = "returned"
    /\ \E i \in DOMAIN states :
         /\ i # start_state
         /\ ~\E j \in edges : edgeObjs[j].state1 = start_state /\ edgeObjs[j].state2 = i

\* C4 (as stated): ThreadPool.stop terminates: while stop waits in
\* queue.join() for unfinished tasks, some worker is still in its loop to
\* mark them done.
C4_StopTerminates ==
    (mainPc = "stop_join" /\ unfinished > 0) => \E w \in Workers : pc[w] # "exit"

RECURSIVE SumOwed(_)
SumOwed(S) == IF S = {} THEN 0 ELSE LET w == Min(S) IN owed[w] + SumOwed(S \ {w})

\* C5: every task a worker has dequeued is marked done exactly once, whether
\* the task function returned or raised: a worker owes one task_done while
\* it runs a task and none otherwise, and the queue's unfinished count is
\* the queued tasks plus the owed ones.
C5_TaskDoneExactlyOnce ==
    /\ \A w \in Workers : owed[w] = IF pc[w] \in {"run", "fin"} THEN 1 ELSE 0
    /\ mode = "pool" => unfinished = Len(queue) + SumOwed(Workers)

\* A worker that caught an exception is running a further task.
C5_Witness == \E w \in Workers : raisedBefore[w] /\ pc[w] = "run" /\ owed[w] = 1

(***************************************************************************)
(* SpecCrawl: build_graph of either explorer followed by the simulated     *)
(* crawl of the built graph by a second user (crawl / crawl_graph).        *)
(***************************************************************************)
CrawlUser == "crawl"
CrawlTask == [kind |-> "crawl", state |-> NoState]

\* Graph.get_edges_for_state(state): the stored edges out of the state.
get_edges_for_state(objs, stored, s) == {i \in stored : objs[i].state1 = s}

\* sorted(edges, key=(state1.id, state2.id)): the edges that may come next
\* among those left; edges of one key keep the order of the set.
FirstSorted(objs, left) ==
    {i \in left : \A j \in left : objs[i].state2 <= objs[j].state2}

\* Access.simulate_action_on_element: the score the user model gives the
\* action on the element, without performing it.
simulate_action_on_element(e, able) ==
    EdgeMetrics(IF e.element \in able THEN 1 ELSE 0)

\* The body of the crawl loop for the outgoing edge e of state s.
crawl_edge_untagged(sts, objs, s, e, seen, tv, able) ==
    [edgeObjs |-> objs,
     states |-> IF objs[e].state2 \notin seen
                THEN set_user_path(sts, objs[e].state2, CrawlUser,
                                   Append(get_user_path(sts, s, CrawlUser), e))
                ELSE sts,
     seen |-> seen \cup {objs[e].state2},
     to_visit |-> IF objs[e].state2 \notin seen THEN Append(tv, objs[e].state2) ELSE tv]
crawl_edge(sts, objs, s, e, seen, tv, able) ==
    IF simulate_action_on_element(objs[e], able).ability_score > 0
    THEN [edgeObjs |-> [objs EXCEPT ![e].user_metrics =
                           add_data_for_user(@, CrawlUser,
                               simulate_action_on_element(objs[e], able))],
          states |-> IF objs[e].state2 \notin seen
                     THEN set_user_path(sts, objs[e].state2, CrawlUser,
                                        Append(get_user_path(sts, s, CrawlUser), e))
                     ELSE sts,
          seen |-> seen \cup {objs[e].state2},
          to_visit |-> IF objs[e].state2 \notin seen /\ ~sts[objs[e].state2].data.stub
                       THEN Append(tv, objs[e].state2)
                       ELSE tv]
    ELSE [edgeObjs |-> objs, states |-> sts, seen |-> seen, to_visit |-> tv]

\* crawl / crawl_graph up to the loop: the start state gets the empty path.
CrawlBegin ==
    /\ states' = set_user_path(states, start_state, CrawlUser, <<>>)
    /\ to_visit' = <<start_state>>
    /\ seen_states' = {start_state}
    /\ pending' = {}
    /\ ability' \in SUBSET (1..NumMoves)

\* state = states_to_visit.pop() and the list of its outgoing edges.
CrawlPop(t) ==
    /\ to_visit # <<>>
    /\ pending = {}
    /\ cur' = [cur EXCEPT ![t] = Head(to_visit)]
    /\ to_visit' = Tail(to_visit)
    /\ pending' = get_edges_for_state(edgeObjs, edges, Head(to_visit))

\* One round of "for outgoing_edge in graph.get_edges_for_state(state)".
CrawlEdge(t) ==
    \E e \in FirstSorted(edgeObjs, pending) :
        /\ edgeObjs' = crawl_edge(states, edgeObjs, cur[t], e, seen_states, to_visit,
                                  ability).edgeObjs
        /\ states' = crawl_edge(states, edgeObjs, cur[t], e, seen_states, to_visit,
                                ability).states
        /\ seen_states' = crawl_edge(states, edgeObjs, cur[t], e, seen_states, to_visit,
                                     ability).seen
        /\ to_visit' = crawl_edge(states, edgeObjs, cur[t], e, seen_states, to_visit,
                                  ability).to_visit
        /\ pending' = pending \ {e}

crawlFrame == <<auto_inc, start_state, edges, idCount, epochCount, graphs, last,
                observed, callVars, captures, mode, stop_event, noops, cursor, found,
                raisedBefore, expCount, expanded>>

\* Controller.crawl_graph up to the loop.
SCrawlStart ==
    /\ mode = "single" /\ mainPc = "returned"
    /\ CrawlBegin
    /\ mainPc' = "crawl"
    /\ UNCHANGED <<crawlFrame, edgeObjs, queue, unfinished, pc, cur, owed>>

SCrawlPop ==
    /\ mode = "single" /\ mainPc = "crawl"
    /\ CrawlPop(0)
    /\ UNCHANGED <<crawlFrame, states, edgeObjs, seen_states, ability, mainPc, queue,
                   unfinished, pc, owed>>

SCrawlEdge ==
    /\ mode = "single" /\ mainPc = "crawl"
    /\ CrawlEdge(0)
    /\ UNCHANGED <<crawlFrame, ability, mainPc, queue, unfinished, pc, cur, owed>>

\* Controller.crawl_graph: states_to_visit is empty.
SCrawlReturn ==
    /\ mode = "single" /\ mainPc = "crawl"
    /\ to_visit = <<>> /\ pending = {}
    /\ mainPc' = "crawled"
    /\ UNCHANGED <<crawlFrame, graphVars, crawlVars, queue, unfinished, pc, cur, owed>>

\* MultiController.crawl_graph: pool.add_task(crawl, ...).
MCrawlAddTask ==
    /\ mode = "pool" /\ mainPc = "returned"
    /\ DOMAIN states # {}
    /\ queue' = Append(queue, CrawlTask)
    /\ unfinished' = unfinished + 1
    /\ mainPc' = "crawl_join"
    /\ UNCHANGED <<crawlFrame, graphVars, crawlVars, pc, cur, owed>>

\* MultiController.crawl_graph: the graph has no states, Exception.
MCrawlRaises ==
    /\ mode = "pool" /\ mainPc = "returned"
    /\ DOMAIN states = {}
    /\ mainPc' = "raised"
    /\ UNCHANGED <<crawlFrame, graphVars, crawlVars, queue, unfinished, pc, cur, owed>>

\* MultiController.crawl_graph: pool.wait_completion() returns.
MCrawlCompletion ==
    /\ mode = "pool" /\ mainPc = "crawl_join"
    /\ unfinished = 0
    /\ mainPc' = "crawled"
    /\ UNCHANGED <<crawlFrame, graphVars, crawlVars, queue, unfinished, pc, cur, owed>>

\* Worker.run: queue.get() of the crawl task; crawl up to its loop.
WGetCrawl(w) ==
    /\ pc[w] = "get"
    /\ queue # <<>>
    /\ Head(queue) = CrawlTask
    /\ queue' = Tail(queue)
    /\ owed' = [owed EXCEPT ![w] = @ + 1]
    /\ CrawlBegin
    /\ pc' = [pc EXCEPT ![w] = "crawl"]
    /\ UNCHANGED <<crawlFrame, edgeObjs, mainPc, unfinished, cur>>

WCrawlPop(w) ==
    /\ pc[w] = "crawl"
    /\ CrawlPop(w)
    /\ UNCHANGED <<crawlFrame, states, edgeObjs, seen_states, ability, mainPc, queue,
                   unfinished, pc, owed>>

WCrawlEdge(w) ==
    /\ pc[w] = "crawl"
    /\ CrawlEdge(w)
    /\ UNCHANGED <<crawlFrame, ability, mainPc, queue, unfinished, pc, cur, owed>>

\* crawl returns []; the finally clause of Worker.run is next.
WCrawlReturn(w) ==
    /\ pc[w] = "crawl"
    /\ to_visit = <<>> /\ pending = {}
    /\ pc' = [pc EXCEPT ![w] = run_exit_pc(FALSE)]
    /\ UNCHANGED <<crawlFrame, graphVars, crawlVars, mainPc, queue, unfinished, cur,
                   owed>>

NextCrawl ==
    \/ MAddTask
    \/ MWaitCompletion
    \/ \E w \in Workers : WCheck(w)
    \/ \E w \in Workers : WGetLoadFails(w)
    \/ \E w \in Workers : WGetLoad(w)
    \/ \E w \in Workers : WGetBuild(w)
    \/ \E w \in Workers : WAttemptNone(w)
    \/ \E w \in Workers : WAttemptChange(w)
    \/ \E w \in Workers : WAttemptRaises(w)
    \/ \E w \in Workers : WAttemptRaisesLate(w)
    \/ \E w \in Workers : WReturnEmpty(w)
    \/ \E w \in Workers : WReturnPartition(w)
    \/ \E w \in Workers : WTaskDone(w)
    \/ SBuildStart
    \/ SPop
    \/ SPopRaises
    \/ SReturn
    \/ SAttemptNone
    \/ SAttemptChange
    \/ SAttemptRaises
    \/ SExpanded
    \/ SCrawlStart
    \/ SCrawlPop
    \/ SCrawlEdge
    \/ SCrawlReturn
    \/ MCrawlAddTask
    \/ MCrawlRaises
    \/ MCrawlCompletion
    \/ \E w \in Workers : WGetCrawl(w)
    \/ \E w \in Workers : WCrawlPop(w)
    \/ \E w \in Workers : WCrawlEdge(w)
    \/ \E w \in Workers : WCrawlReturn(w)

SpecCrawl == InitExplore /\ [][NextCrawl]_vars

\* C11: at every point of the build and of the crawl, every edge of a path
\* recorded for a user in a state carries metrics for that user.
C11_PathEdgesSupportUser ==
    \A s \in DOMAIN states : \A u \in DOMAIN states[s].user_paths :
        \A k \in 1..Len(states[s].user_paths[u]) :
            u \in DOMAIN edgeObjs[states[s].user_paths[u][k]].user_metrics

\* The crawl has recorded a path of two edges for the crawling user.
C11_Witness ==
    \E s \in DOMAIN states :
        /\ CrawlUser \in DOMAIN states[s].user_paths
        /\ BuildUser \in DOMAIN states[s].user_paths
        /\ Len(states[s].user_paths[CrawlUser]) = 2

(***************************************************************************)
(* SpecAction: one call of WebAccess.perform_action_on_element.  pa.em is  *)
(* the EdgeMetrics of the call (ability score and error marker),           *)
(* pa.attempts counts the action.execute calls, pa.failed tells that the   *)
(* latest action.execute raised.                                           *)
(***************************************************************************)
idleExpl == <<mode, mainPc, queue, unfinished, stop_event, noops, pc, cur, cursor,
              found, owed, raisedBefore, expCount, expanded, crawlVars>>

\* "retries = 3".
Retries == 3

\* Access._create_edge_metrics.
create_edge_metrics == [ability_score |-> NoScore, error |-> FALSE]

\* Action._execute_advanced up to and including the score assignment.
execute_score(em, element_score) == set_ability_score(em, element_score)

\* The end of one round of the retry loop when the dom was not retrieved.
round_end(p) ==
    IF p.retries = 0
    THEN [p EXCEPT !.pc = "returned", !.em = set_ability_score(@, 0)]
    ELSE [p EXCEPT !.pc = "head"]

\* The call up to the retry loop; prev_dom = self._get_dom() succeeded.
PCall ==
    /\ pa.pc = "idle"
    /\ pa' = [pc |-> "head", retries |-> Retries, attempts |-> 0,
              em |-> create_edge_metrics, failed |-> FALSE]
    /\ UNCHANGED <<graphVars, histVars, idleExpl, wt, cp, pt, rp, tp, tb, auxVars>>

\* prev_dom = self._get_dom() raises (WebDriverException after its own
\* retries): the exception leaves perform_action_on_element.
PCallRaises ==
    /\ pa.pc = "idle"
    /\ pa' = [pc |-> "raised", retries |-> Retries, attempts |-> 0,
              em |-> create_edge_metrics, failed |-> FALSE]
    /\ UNCHANGED <<graphVars, histVars, idleExpl, wt, cp, pt, rp, tp, tb, auxVars>>

\* The element no longer exists, or is not reachable and no popup could be
\* dismissed: error marker, score 0.0, return.
PElementMissing ==
    /\ pa.pc = "head" /\ pa.retries > 0
    /\ pa' = [pa EXCEPT !.pc = "returned", !.retries = @ - 1,
                        !.em = [set_ability_score(@, 0) EXCEPT !.error = TRUE]]
    /\ UNCHANGED <<graphVars, histVars, idleExpl, wt, cp, pt, rp, tp, tb, auxVars>>

\* action.execute returns (a score of 0 returns before acting); the error
\* marker is cleared.
PExecuteOk ==
    /\ pa.pc = "head" /\ pa.retries > 0
    /\ \E sc \in 0..MaxScore :
         pa' = [pa EXCEPT !.pc = "dom", !.retries = @ - 1, !.attempts = @ + 1,
                          !.em = [execute_score(@, sc) EXCEPT !.error = FALSE],
                          !.failed = FALSE]
    /\ UNCHANGED <<graphVars, histVars, idleExpl, wt, cp, pt, rp, tp, tb, auxVars>>

\* _execute_simple raises TimeoutException or JavascriptException.
PExecuteTimeout ==
    /\ pa.pc = "head" /\ pa.retries > 0
    /\ \E sc \in Scores :
         pa' = [pa EXCEPT !.pc = "dom", !.retries = @ - 1, !.attempts = @ + 1,
                          !.em = [execute_score(@, sc) EXCEPT !.error = TRUE],
                          !.failed = TRUE]
    /\ UNCHANGED <<graphVars, histVars, idleExpl, wt, cp, pt, rp, tp, tb, auxVars>>

\* _execute_simple raises ElementNotInteractableException or
\* ElementClickInterceptedException and try_dismiss_popup finds a popup.
PExecuteCoveredDismissed ==
    /\ pa.pc = "head" /\ pa.retries > 0
    /\ \E sc \in Scores :
         pa' = [pa EXCEPT !.pc = "dom", !.retries = @ - 1, !.attempts = @ + 1,
                          !.em = execute_score(@, sc),
                          !.failed = TRUE]
    /\ UNCHANGED <<graphVars, histVars, idleExpl, wt, cp, pt, rp, tp, tb, auxVars>>

\* The same exceptions with no popup to dismiss, or any other exception:
\* error marker, no further retry.
PExecuteFails ==
    /\ pa.pc = "head" /\ pa.retries > 0
    /\ \E sc \in Scores :
         pa' = [pa EXCEPT !.pc = "dom", !.retries = 0, !.attempts = @ + 1,
                          !.em = [execute_score(@, sc) EXCEPT !.error = TRUE],
                          !.failed = TRUE]
    /\ UNCHANGED <<graphVars, histVars, idleExpl, wt, cp, pt, rp, tp, tb, auxVars>>

\* dom = self._get_dom() succeeds: break.
PDomOk ==
    /\ pa.pc = "dom"
    /\ pa' = [pa EXCEPT !.pc = "after"]
    /\ UNCHANGED <<graphVars, histVars, idleExpl, wt, cp, pt, rp, tp, tb, auxVars>>

\* _get_dom raises TimeoutException / WebDriverException: the browser is
\* restarted and set_state replays to the current state.
PDomTimeout ==
    /\ pa.pc = "dom"
    /\ pa' = round_end(pa)
    /\ UNCHANGED <<graphVars, histVars, idleExpl, wt, cp, pt, rp, tp, tb, auxVars>>

\* The same, and the replay (set_state, whose wait_for_stable_template
\* retrieves the dom) raises inside the except clause.
PDomTimeoutReplayRaises ==
    /\ pa.pc = "dom"
    /\ pa' = [pa EXCEPT !.pc = "raised"]
    /\ UNCHANGED <<graphVars, histVars, idleExpl, wt, cp, pt, rp, tp, tb, auxVars>>

\* _get_dom raises another exception (alert, JavaScript, any other).
PDomError ==
    /\ pa.pc = "dom"
    /\ pa' = round_end(pa)
    /\ UNCHANGED <<graphVars, histVars, idleExpl, wt, cp, pt, rp, tp, tb, auxVars>>

\* After the loop: the dom comparison and the state data update; return.
PReturn ==
    /\ pa.pc = "after"
    /\ pa' = [pa EXCEPT !.pc = "returned"]
    /\ UNCHANGED <<graphVars, histVars, idleExpl, wt, cp, pt, rp, tp, tb, auxVars>>

\* After the loop: wait_for_animation or the second _get_dom raises.
PReturnRaises ==
    /\ pa.pc = "after"
    /\ pa' = [pa EXCEPT !.pc = "raised"]
    /\ UNCHANGED <<graphVars, histVars, idleExpl, wt, cp, pt, rp, tp, tb, auxVars>>

NextAction ==
    \/ PCall
    \/ PCallRaises
    \/ PElementMissing
    \/ PExecuteOk
    \/ PExecuteTimeout
    \/ PExecuteCoveredDismissed
    \/ PExecuteFails
    \/ PDomOk
    \/ PDomTimeout
    \/ PDomTimeoutReplayRaises
    \/ PDomError
    \/ PReturn
    \/ PReturnRaises

SpecAction == InitStates /\ [][NextAction]_vars

\* C13 (as stated): when the latest action.execute of the call raised, the
\* EdgeMetrics that perform_action_on_element returns has ability score 0
\* and carries an error marker.
C13_ErrorGivesZeroScore ==
    (pa.pc = "returned" /\ pa.failed) =>
        (pa.em.ability_score = 0 /\ pa.em.error)

\* C14 (as stated): action.execute is attempted at most 3 times per call and
\* the call never ends by raising, whatever attempt or dom retrieval fails.
C14_BoundedAndReturns ==
    /\ pa.pc # "idle" => pa.attempts <= 3
    /\ pa.pc # "raised"

(***************************************************************************)
(* SpecWait: one call of WebAccess.wait_for_stable_template, time counted  *)
(* in whole units.  wt.prev is prev_dom (0 for None), wt.tbt is            *)
(* templates_by_timestamp, wt.spent is seconds_spent, the time slept.      *)
(***************************************************************************)
MaxInterval == 2
MaxTimeout == 3

\* HtmlTemplate(dom1, dom2): the template of two dom strings.
HtmlTemplate2(dom1, dom2) ==
    IF dom1 = dom2 THEN HtmlTemplate(dom1)
    ELSE add_template(HtmlTemplate(dom1), HtmlTemplate(dom2))

\* HtmlTemplate.get_unstable_xpaths, for the one element of the model.
get_unstable_xpaths(t) == IF t.unst THEN {1} ELSE {}

\* The backward loop over templates_by_timestamp (indices from 1 here): the
\* stable index and the combined template.
RECURSIVE add_templates(_, _)
add_templates(t, ts) ==
    IF ts = <<>> THEN t ELSE add_templates(add_template(t, Head(ts)), Tail(ts))

RECURSIVE combine_back(_, _, _, _, _, _)
combine_back(tbt, ux, i, si, t, queued) ==
    IF i < 2 THEN [stable_index |-> si, template |-> t]
    ELSE IF get_unstable_xpaths(tbt[i].template) = ux
         THEN combine_back(tbt, ux, i - 1, i - 1,
                           add_templates(add_template(t, tbt[i].template), queued),
                           queued)
         ELSE combine_back(tbt, ux, i - 1, si, t, Append(queued, tbt[i].template))

\* The call: the threshold is cut down to the timeout.
WtCall ==
    /\ wt.pc = "idle"
    /\ \E iv \in 1..MaxInterval, to \in 1..MaxTimeout, th \in 1..(MaxTimeout + 1) :
         wt' = [pc |-> "loop", interval |-> iv, timeout |-> to,
                threshold |-> IF th > to THEN to ELSE th,
                spent |-> 0, stable |-> -1, prev |-> 0, tbt |-> <<>>,
                result |-> NoTemplate]
    /\ UNCHANGED <<graphVars, histVars, idleExpl, pa, cp, pt, rp, tp, tb, auxVars>>

\* time.sleep(seconds_interval) and the check against the timeout.
sleep_round(w, dom) ==
    [w EXCEPT !.prev = dom, !.spent = @ + w.interval,
              !.pc = IF w.spent + w.interval > w.timeout THEN "timeout" ELSE "loop"]

\* One round of the loop in which the dom equals the previous one.
stable_round(w, dom, st) ==
    IF st >= 0 /\ w.spent - st >= w.threshold
    THEN [w EXCEPT !.pc = "returned", !.stable = st, !.result = HtmlTemplate(dom)]
    ELSE sleep_round([w EXCEPT !.stable = st], dom)

\* One round of the loop with the dom snapshot taken in it.
WtRound ==
    /\ wt.pc = "loop"
    /\ \E dom \in Values :
         wt' = IF wt.prev = 0 THEN sleep_round(wt, dom)
               ELSE IF dom = wt.prev
                    THEN stable_round(wt, dom,
                             IF wt.stable = -1 THEN wt.spent - wt.interval ELSE wt.stable)
                    ELSE sleep_round(
                             [wt EXCEPT !.stable = -1,
                                        !.tbt = Append(@, [seconds |-> wt.spent,
                                                           template |-> HtmlTemplate2(wt.prev, dom)])],
                             dom)
    /\ UNCHANGED <<graphVars, histVars, idleExpl, pa, cp, pt, rp, tp, tb, auxVars>>

\* The end after a timeout when the dom changed at least once.
timeout_result(w, r) ==
    [w EXCEPT !.pc = "returned",
              !.stable = w.tbt[IF r.stable_index > 1 THEN r.stable_index ELSE 1].seconds,
              !.result = r.template]

\* After the timeout: the templates are combined and
\* templates_by_timestamp[stable_index] is read.
WtTimeout ==
    /\ wt.pc = "timeout"
    /\ wt.tbt # <<>>
    /\ wt' = timeout_result(wt, combine_back(wt.tbt,
                    get_unstable_xpaths(HtmlTemplate2(wt.prev, wt.prev)),
                    Len(wt.tbt), Len(wt.tbt), HtmlTemplate2(wt.prev, wt.prev), <<>>))
    /\ UNCHANGED <<graphVars, histVars, idleExpl, pa, cp, pt, rp, tp, tb, auxVars>>

\* After the timeout with templates_by_timestamp empty: index 0 of an empty
\* list, IndexError.
WtTimeoutRaises ==
    /\ wt.pc = "timeout"
    /\ wt.tbt = <<>>
    /\ wt' = [wt EXCEPT !.pc = "raised"]
    /\ UNCHANGED <<graphVars, histVars, idleExpl, pa, cp, pt, rp, tp, tb, auxVars>>

NextWait ==
    \/ WtCall
    \/ WtRound
    \/ WtTimeout
    \/ WtTimeoutRaises

SpecWait == InitStates /\ [][NextWait]_vars

\* C15 (as stated): wait_for_stable_template never raises and never sleeps
\* longer than the timeout plus one interval, whatever the interval, the
\* timeout, the threshold and the dom snapshots are.
C15_WaitAlwaysReturns ==
    /\ wt.pc # "raised"
    /\ wt.pc # "idle" => wt.spent <= wt.timeout + wt.interval

(***************************************************************************)
(* SpecCompare: calls of Comparer.compare with pipelines built from the    *)
(* comparator objects, a comparator object possibly used in two stages.    *)
(***************************************************************************)
Pipelines ==
    UNION {[1..n -> [comparator : Comparators, flags : CompareFlags]] :
              n \in 1..MaxPipeline}

CCompare ==
    /\ cp.pc = "idle"
    /\ \E pipeline \in Pipelines, r1 \in Reprs, r2 \in Reprs :
         cp' = [pc |-> "done", pipeline |-> pipeline, r1 |-> r1, r2 |-> r2,
                result |-> Comparer_compare(r1, r2, pipeline)]
    /\ UNCHANGED <<graphVars, histVars, idleExpl, pa, wt, pt, rp, tp, tb, auxVars>>

NextCompare ==
    \/ CCompare

SpecCompare == InitStates /\ [][NextCompare]_vars

\* The stage whose result the pipeline is to return: the first one whose
\* result triggers its own flag, the one in last position otherwise.
DecidingStage(pipeline, r1, r2) ==
    Min({i \in 1..Len(pipeline) :
            \/ i = Len(pipeline)
            \/ match(pipeline[i].comparator, r1, r2) = "true"
                 /\ pipeline[i].flags.stop_if_true
            \/ match(pipeline[i].comparator, r1, r2) = "false"
                 /\ pipeline[i].flags.stop_if_false})

\* C16 (as stated): on a non-empty pipeline none of whose comparators fails,
\* compare returns the result of the first stage whose result triggers that
\* stage's flag, and the result of the stage in last position when no
\* earlier stage stops.
C16_PipelineResult ==
    (/\ cp.pc = "done"
     /\ \A i \in 1..Len(cp.pipeline) :
           match(cp.pipeline[i].comparator, cp.r1, cp.r2) # "raise")
    => cp.result = match(cp.pipeline[DecidingStage(cp.pipeline, cp.r1, cp.r2)].comparator,
                         cp.r1, cp.r2)

(***************************************************************************)
(* SpecData: add_state on a graph of base StateData, compared by the       *)
(* pipeline.                                                               *)
(***************************************************************************)
\* graph.add_state(state_data) for the state data of an interface.
DAddState ==
    \E r \in Reprs : CallAddState(StateData(r))

NextData ==
    \/ DAddState

SpecData == InitStates /\ [][NextData]_vars

\* C17 (as stated): when a comparator fails during add_state, no exception
\* leaves add_state and the new data is kept apart from the stored state:
\* the call returns, having inserted the data as a new state.
C17_ComparatorFailureMeansDifferent ==
    (/\ last.op = "add"
     /\ "repr" \in DOMAIN last.d
     /\ \E i \in DOMAIN last.pre :
           StateData_eq(last.pre[i].data, last.d).res = "raise")
    => (~last.raised /\ last.was_added)

(***************************************************************************)
(* SpecPath: the explorers and the re-crawl as in SpecCrawl, followed by   *)
(* one call of Graph.path on the graph they have produced.                 *)
(***************************************************************************)
NoPath == [none |-> TRUE, path |-> <<>>]
FoundPath(p) == [none |-> FALSE, path |-> p]

\* sorted(edges, key=(state1.id, state2.id)) as a list; edges of one key
\* are taken in the order of their creation.
RECURSIVE sorted_edges(_, _)
sorted_edges(objs, left) ==
    IF left = {} THEN <<>>
    ELSE <<Min(FirstSorted(objs, left))>>
            \o sorted_edges(objs, left \ {Min(FirstSorted(objs, left))})

\* Graph.get_edges_for_state(state, user=user): the sorted list, filtered.
get_edges_for_state_user(objs, stored, s, u) ==
    SelectSeq(sorted_edges(objs, get_edges_for_state(objs, stored, s)),
              LAMBDA i : supports_user(objs[i], u))

Reverse(q) == [i \in 1..Len(q) |-> q[Len(q) + 1 - i]]

\* "for path in paths: if path[-1].state2 == edge.state1": the adjoining
\* paths, extended by the edge.
adjoining(objs, paths, e) ==
    SelectSeq(paths, LAMBDA p : objs[p[Len(p)]].state2 = objs[e].state1)
extended(objs, paths, e) ==
    [i \in 1..Len(adjoining(objs, paths, e)) |-> Append(adjoining(objs, paths, e)[i], e)]

\* "for s2_edge in get_edges_for_state(edge.state2, user): if s2_edge.state2
\* not in visited_states: edges_to_visit.appendleft(s2_edge)".
appendleft_edges(objs, stored, q, s, u, visited) ==
    q \o SelectSeq(get_edges_for_state_user(objs, stored, s, u),
                   LAMBDA i : objs[i].state2 \notin visited)

\* The while loop of Graph.path.  The deque is a sequence whose head is its
\* right end: pop() takes the head, appendleft() appends.
RECURSIVE path_loop(_, _, _, _, _, _, _, _)
path_edge(objs, stored, s1, s2, u, q, visited, paths) ==
    IF ~supports_user(objs[Head(q)], u)
    THEN path_loop(objs, stored, s1, s2, u, Tail(q), visited, paths)
    ELSE IF objs[Head(q)].state1 = s1
    THEN IF objs[Head(q)].state2 = s2 THEN FoundPath(<<Head(q)>>)
         ELSE path_loop(objs, stored, s1, s2, u,
                        appendleft_edges(objs, stored, Tail(q), objs[Head(q)].state2, u,
                                         visited),
                        visited, Append(paths, <<Head(q)>>))
    ELSE IF extended(objs, paths, Head(q)) # <<>> /\ objs[Head(q)].state2 = s2
    THEN FoundPath(extended(objs, paths, Head(q))[1])
    ELSE path_loop(objs, stored, s1, s2, u,
                   appendleft_edges(objs, stored, Tail(q), objs[Head(q)].state2, u,
                                    visited),
                   visited, paths \o extended(objs, paths, Head(q)))

path_loop(objs, stored, s1, s2, u, q, visited, paths) ==
    IF q = <<>> THEN NoPath
    ELSE IF objs[Head(q)].state2 \in visited
    THEN path_loop(objs, stored, s1, s2, u, Tail(q), visited, paths)
    ELSE path_edge(objs, stored, s1, s2, u, q, visited \cup {objs[Head(q)].state2},
                   paths)

\* Graph.path(s1, s2, user).
path_search(sts, start, objs, stored, s1, s2, u) ==
    IF s1 = s2 THEN FoundPath(<<>>)
    ELSE path_loop(objs, stored, s1, s2, u,
                   Reverse(get_edges_for_state_user(objs, stored, s1, u)), {}, <<>>)
path(sts, start, objs, stored, s1, s2, u) ==
    IF s1 = start
    THEN (IF u \in DOMAIN sts[s2].user_paths THEN FoundPath(sts[s2].user_paths[u])
          ELSE NoPath)
    ELSE path_search(sts, start, objs, stored, s1, s2, u)

\* The caller of build_graph / crawl_graph goes on to graph.path(s1, s2, user).
GPath ==
    /\ mainPc \in {"returned", "crawled"}
    /\ mainPc' = "path"
    /\ \E s1 \in DOMAIN states, s2 \in DOMAIN states, u \in Users :
         pt' = [pc |-> "done", s1 |-> s1, s2 |-> s2, user |-> u,
                result |-> path(states, start_state, edgeObjs, edges, s1, s2, u)]
    /\ UNCHANGED <<graphVars, histVars, crawlVars, pa, wt, cp, rp, tp, tb, auxVars, mode, queue, unfinished,
                   stop_event, noops, pc, cur, cursor, found, owed, raisedBefore,
                   expCount, expanded>>

NextPath ==
    \/ NextCrawl
    \/ GPath

SpecPath == InitExplore /\ [][NextPath]_vars

\* p is a chain of edges from s1 to s2, each supporting u.
IsChain(p, s1, s2, u) ==
    /\ Len(p) = 0 => s1 = s2
    /\ Len(p) > 0 => edgeObjs[p[1]].state1 = s1 /\ edgeObjs[p[Len(p)]].state2 = s2
    /\ \A k \in 1..Len(p) : supports_user(edgeObjs[p[k]], u)
    /\ \A k \in 1..(Len(p) - 1) : edgeObjs[p[k]].state2 = edgeObjs[p[k + 1]].state1

\* The least number of stored edges supporting u that lead from S to s2,
\* counted from n (s2 is reachable from S).
RECURSIVE Distance(_, _, _, _)
Distance(S, s2, u, n) ==
    IF s2 \in S THEN n
    ELSE Distance(S \cup {edgeObjs[j].state2 :
                             j \in {k \in edges : /\ edgeObjs[k].state1 \in S
                                                  /\ supports_user(edgeObjs[k], u)}},
                  s2, u, n + 1)

\* C18 (as stated): path(s1, s2, u) returns None only when no chain of
\* stored edges supporting u leads from s1 to s2, and otherwise a connected
\* chain of edges supporting u from s1 to s2 of minimal length; the start
\* state as s1 included.
C18_PathIsShortestChain ==
    pt.pc = "done" =>
        IF pt.s2 \in ReachableFrom({pt.s1}, pt.user)
        THEN /\ ~pt.result.none
             /\ IsChain(pt.result.path, pt.s1, pt.s2, pt.user)
             /\ Len(pt.result.path) = Distance({pt.s1}, pt.s2, pt.user, 0)
        ELSE pt.result.none

\* C19 (as stated): path(s, s, u) is the empty list for every state s and
\* every user u, the start state included.
C19_PathToSelfIsEmpty ==
    (pt.pc = "done" /\ pt.s1 = pt.s2) => (~pt.result.none /\ pt.result.path = <<>>)

\* The state s of the graph is a stub.
IsStub(s) == s \in DOMAIN states /\ states[s].data.stub

LFind ==
    /\ cp.pc = "idle"
    /\ \E v \in Values, seen \in SUBSET Values, src \in DOMAIN states \cup {NoState} :
         LET d == IF src = NoState THEN load_state_data(v, seen \cup {v})
                  ELSE IF v \in seen THEN create_state_data(states[src].data, v)
                  ELSE create_stub_data(v)
         IN  /\ src = NoState <=> DOMAIN states = {}
             /\ cp' = [pc |-> "locked", f |-> find_state_by_data(states, d)]
    /\ UNCHANGED <<graphVars, histVars, idleExpl, pa, wt, pt, rp, tp, tb, auxVars>>

\* "state = State(state_data); self.states.add(state)".
LStatesAdd ==
    /\ cp.pc = "locked" /\ cp.f.res = "none"
    /\ auto_inc < MaxStates
    /\ states' = add_state_new(states, start_state, State_init(auto_inc), cp.f.d).states
    /\ auto_inc' = State_init(auto_inc).auto_inc
    /\ cp' = [pc |-> "added", f |-> cp.f, id |-> State_init(auto_inc).id]
    /\ UNCHANGED <<start_state, edgeObjs, edges, histVars, idleExpl, pa, wt, pt, rp, tp, tb, auxVars>>

\* "if self.start_state is None: self.start_state = state", then the return
\* of (True, state), which releases the lock.
LAssignStart ==
    /\ cp.pc = "added"
    /\ start_state' = add_state_new(states, start_state,
                                    [id |-> cp.id, auto_inc |-> auto_inc], cp.f.d).start_state
    /\ cp' = [pc |-> "idle"]
    /\ UNCHANGED <<auto_inc, states, edgeObjs, edges, histVars, idleExpl, pa, wt, pt, rp, tp, tb, auxVars>>

\* The state was found, or a comparison raised: the lock is released.
LRelease ==
    /\ cp.pc = "locked" /\ cp.f.res # "none"
    /\ cp' = [pc |-> "idle"]
    /\ UNCHANGED <<graphVars, histVars, idleExpl, pa, wt, pt, rp, tp, tb, auxVars>>

NextLock ==
    \/ LFind
    \/ LStatesAdd
    \/ LAssignStart
    \/ LRelease

SpecLock == InitStates /\ [][NextLock]_vars

\* C21 (as stated): in every state a thread can observe, start_state is set
\* if and only if the state set is non-empty.
C21_StartSetIffStates == (start_state # NoState) <=> (DOMAIN states # {})

\* C21 (amended): whenever Graph.lock is free, start_state is set if and
\* only if the state set is non-empty.
C21_StartSetIffStatesUnlocked ==
    cp.pc = "idle" => ((start_state # NoState) <=> (DOMAIN states # {}))

\* add_state has inserted two states and released the lock.
C21_Witness ==
    /\ cp.pc = "idle"
    /\ start_state # NoState
    /\ Cardinality(DOMAIN states) >= 2

(***************************************************************************)
(* SpecSim: Controller.build_graph and crawl_graph on an interface that    *)
(* captures the build data (WebAccess) or one that leaves                  *)
(* BuildData.is_data_captured False (Access.perform_action_on_element).    *)
(* simulate_action_on_element reads the flag only to log an error.         *)
(***************************************************************************)
InitSim == InitRun /\ mode = "single" /\ captures \in BOOLEAN

NextSim ==
    \/ SBuildStart
    \/ SPop
    \/ SPopRaises
    \/ SReturn
    \/ SAttemptNone
    \/ SAttemptChange
    \/ SAttemptRaises
    \/ SExpanded
    \/ SCrawlStart
    \/ SCrawlPop
    \/ SCrawlEdge
    \/ SCrawlReturn

SpecSim == InitSim /\ [][NextSim]_vars

\* C22 (as stated): in a re-crawl over edges whose build data was not
\* captured, the crawl user receives metrics on no edge and is given a path
\* to no state other than the start state.
C22_UncapturedEdgeRejected ==
    ~captures =>
        /\ \A e \in 1..Len(edgeObjs) : CrawlUser \notin DOMAIN edgeObjs[e].user_metrics
        /\ \A s \in DOMAIN states :
             CrawlUser \in DOMAIN states[s].user_paths => s = start_state

\* C23: once crawl_graph(u) has completed, the states holding a recorded
\* path for u are exactly the states reachable from start_state over stored
\* edges that carry metrics for u (no stored edge leaves a stub state).
C23_CrawlPathsAreReachableStates ==
    mainPc = "crawled" =>
        {s \in DOMAIN states : CrawlUser \in DOMAIN states[s].user_paths}
            = ReachableFrom({start_state}, CrawlUser)

\* The crawl has completed; the crawling user reached a state other than the
\* start state, and the build user reached a state the crawling user did not.
C23_Witness ==
    /\ mainPc = "crawled"
    /\ \E s \in DOMAIN states :
         s # start_state /\ CrawlUser \in DOMAIN states[s].user_paths
    /\ \E s \in ReachableFrom({start_state}, BuildUser) :
         CrawlUser \notin DOMAIN states[s].user_paths

(***************************************************************************)
(* SpecReduced: the repeat and reverse logic of the reduced explorers for  *)
(* one (action, element) pair of the state 0: ControllerReduced.build_graph *)
(* (rp.variant = "single") and build_reduced (rp.variant = "pool").  Graph  *)
(* states are their ids, NoState is None, StubState a stub page; rp.at is   *)
(* the state the interface is in, rp.n the number of states of the graph,   *)
(* rp.outs the results of the _try_edge_update_graph calls so far and       *)
(* rp.redges the reverse edges added, each with the state the interface was *)
(* in when the reverse action was performed and the state it landed on.     *)
(***************************************************************************)
MaxPages == 13
StubState == -2

\* "count < 10".
RepeatBound == 10

\* _try_edge_update_graph(state, ...) with the interface in state s and o
\* what the action does: "fail" (ability score 0), "same" (state data
\* unchanged), "stub", or the id of the state it leads to (n for a new one).
Outcomes(s, n) ==
    [kind : {"fail", "same", "stub"}, id : {NoState}]
        \cup [kind : {"state"}, id : {t \in 0..n : t # s /\ t < MaxPages}]
try_edge_update_graph(variant, s, o, n) ==
    IF o.kind = "fail" THEN [found |-> NoState, new_edge |-> FALSE, at |-> s, n |-> n]
    ELSE IF o.kind = "same"
    THEN [found |-> IF variant = "single" THEN s ELSE NoState,
          new_edge |-> FALSE, at |-> s, n |-> n]
    ELSE IF o.kind = "stub"
    THEN [found |-> StubState, new_edge |-> TRUE, at |-> StubState, n |-> n]
    ELSE [found |-> o.id, new_edge |-> TRUE, at |-> o.id,
          n |-> IF o.id = n THEN n + 1 ELSE n]

\* The test guarding the repeat / reverse block after the first attempt.
chain_starts(variant, r) ==
    IF variant = "single" THEN r.new_edge /\ r.found # StubState
    ELSE r.found # NoState /\ r.found # StubState

\* The condition of the repeat loop.
repeat_cond_unbounded(r) ==
    /\ IF r.variant = "single" THEN r.new_edge ELSE r.current # NoState
    /\ r.current \notin r.sft
    /\ r.current # StubState
repeat_cond(r) ==
    /\ IF r.variant = "single" THEN r.new_edge ELSE r.current # NoState
    /\ r.current \notin r.sft
    /\ r.current # StubState
    /\ r.count < RepeatBound

\* The head of the loop body: states_found_in_order and
\* states_found_this_time take the current state.
repeat_sfo(r) ==
    IF r.variant = "single" /\ \E k \in 1..Len(r.sfo) : r.sfo[k] = r.current
    THEN r.sfo ELSE Append(r.sfo, r.current)

rpFrame == <<graphVars, histVars, idleExpl, pa, wt, cp, pt, tp, tb, auxVars>>

\* The first attempt on the pair, and what it leaves for the repeat loop.
RStart ==
    /\ rp.pc = "idle"
    /\ \E variant \in {"single", "pool"}, repeatable \in BOOLEAN,
          reverse_action \in {"none", "once", "repeatable"}, n \in 1..2 :
         \E o \in Outcomes(0, n) :
            LET r == try_edge_update_graph(variant, 0, o, n)
            IN  rp' = [pc |-> IF ~chain_starts(variant, r) THEN "done"
                              ELSE IF repeatable THEN "loop" ELSE "pop",
                       variant |-> variant, reverse_action |-> reverse_action,
                       sfo |-> IF variant = "single" THEN <<0, r.found>> ELSE <<0>>,
                       sft |-> {0}, count |-> 0,
                       current |-> r.found, new_edge |-> r.new_edge,
                       at |-> r.at, n |-> r.n, outs |-> <<o>>, redges |-> {}]
    /\ UNCHANGED rpFrame

\* One round of the repeat loop: the action is applied again.
RRepeat ==
    /\ rp.pc = "loop" /\ repeat_cond(rp)
    /\ \E o \in Outcomes(rp.at, rp.n) :
         LET r == try_edge_update_graph(rp.variant, rp.current, o, rp.n)
         IN  rp' = [rp EXCEPT !.sfo = repeat_sfo(rp),
                              !.sft = @ \cup {rp.current},
                              !.count = @ + 1,
                              !.current = r.found, !.new_edge = r.new_edge,
                              !.at = r.at, !.n = r.n, !.outs = Append(@, o)]
    /\ UNCHANGED rpFrame

\* The element no longer exists (or is not reachable): break.
RRepeatBreak ==
    /\ rp.pc = "loop" /\ repeat_cond(rp)
    /\ rp' = [rp EXCEPT !.pc = "pop", !.sfo = repeat_sfo(rp),
                        !.sft = @ \cup {rp.current}]
    /\ UNCHANGED rpFrame

\* The loop condition is false.
RRepeatEnd ==
    /\ rp.pc = "loop" /\ ~repeat_cond(rp)
    /\ rp' = [rp EXCEPT !.pc = "pop"]
    /\ UNCHANGED rpFrame

\* "current_state = states_found_in_order.pop()" and the test of
\* reverse_action.
RPop ==
    /\ rp.pc = "pop"
    /\ rp' = [rp EXCEPT !.pc = IF rp.reverse_action = "none" THEN "done" ELSE "reverse",
                        !.current = rp.sfo[Len(rp.sfo)],
                        !.sfo = SubSeq(rp.sfo, 1, Len(rp.sfo) - 1)]
    /\ UNCHANGED rpFrame

\* One round of the reverse loop in which the reverse action is performed
\* with positive score and lands on the valid state t.
RReverse ==
    /\ rp.pc = "reverse" /\ rp.sfo # <<>>
    /\ \E t \in 0..rp.n :
         /\ t < MaxPages
         /\ rp' = [rp EXCEPT
                     !.sfo = SubSeq(rp.sfo, 1, Len(rp.sfo) - 1),
                     !.at = t,
                     !.n = IF t = rp.n THEN rp.n + 1 ELSE rp.n,
                     !.redges = IF t = rp.sfo[Len(rp.sfo)]
                                THEN @ \cup {[state1 |-> rp.current,
                                              state2 |-> rp.sfo[Len(rp.sfo)],
                                              at |-> rp.at, landed |-> t]}
                                ELSE @,
                     !.current = IF t = rp.sfo[Len(rp.sfo)] THEN t ELSE @,
                     !.pc = IF t = rp.sfo[Len(rp.sfo)] /\ rp.reverse_action = "repeatable"
                            THEN "reverse" ELSE "done"]
    /\ UNCHANGED rpFrame

\* The reverse loop ends: nothing is left in states_found_in_order, the
\* element is gone, the score is 0 or the resulting state is not valid.
RReverseEnd ==
    /\ rp.pc = "reverse"
    /\ rp' = [rp EXCEPT !.pc = "done"]
    /\ UNCHANGED rpFrame

NextReduced ==
    \/ RStart
    \/ RRepeat
    \/ RRepeatBreak
    \/ RRepeatEnd
    \/ RPop
    \/ RReverse
    \/ RReverseEnd

SpecReduced == InitStates /\ [][NextReduced]_vars

\* The states of the chain in the order of their discovery: the state 0 and
\* the states the attempts led to.
ChainBefore(k) == {0} \cup {rp.outs[j].id : j \in 1..(k - 1)}

C25_ReverseEdgesAreReal ==
    rp.pc # "idle" =>
        \A e \in rp.redges :
            /\ \E k \in 1..Len(rp.outs) :
                  /\ rp.outs[k].id = e.state1
                  /\ e.state2 = IF k = 1 THEN 0 ELSE rp.outs[k - 1].id
            /\ e.at = e.state1
            /\ e.landed = e.state2

(***************************************************************************)
(* A reader thread beside add_state: "for state in self.get_states()" of   *)
(* find_state_by_id, get_edges and __contains__.  get_states returns       *)
(* self.states itself, and the reader does not take Graph.lock.  rd.size   *)
(* is the size the set iterator noted when it was made, rd.begun the set   *)
(* at that moment, rd.visited the states it has given out.  The iterator   *)
(* of a set raises RuntimeError when the size of the set has changed.      *)
(***************************************************************************)
rdFrame == <<graphVars, histVars, idleExpl, pa, wt, cp, pt, rp, tp, tb, ws, am, moreVars>>

\* get_states(): the object the reader iterates.
get_states(sts) == DOMAIN sts

\* What the running iteration walks over: self.states as it is now.
iterated(r, sts) == get_states(sts)

\* iter(self.get_states()).
RdIter ==
    /\ rd.pc = "idle"
    /\ rd' = [pc |-> "iter", size |-> Cardinality(get_states(states)),
              begun |-> get_states(states), visited |-> {}]
    /\ UNCHANGED rdFrame

\* next() gives a state that was not given yet.
RdNext ==
    /\ rd.pc = "iter"
    /\ Cardinality(iterated(rd, states)) = rd.size
    /\ \E s \in iterated(rd, states) \ rd.visited :
         rd' = [rd EXCEPT !.visited = @ \cup {s}]
    /\ UNCHANGED rdFrame

\* next() finds the size changed: "Set changed size during iteration".
RdRaises ==
    /\ rd.pc = "iter"
    /\ Cardinality(iterated(rd, states)) # rd.size
    /\ rd' = [rd EXCEPT !.pc = "raised"]
    /\ UNCHANGED rdFrame

\* The iterator is exhausted, or the caller catches the error.
RdEnd ==
    /\ \/ rd.pc = "raised"
       \/ /\ rd.pc = "iter"
          /\ Cardinality(iterated(rd, states)) = rd.size
          /\ iterated(rd, states) \subseteq rd.visited
    /\ rd' = NoReader
    /\ UNCHANGED rdFrame

NextReaders ==
    \/ LFind
    \/ LStatesAdd
    \/ LAssignStart
    \/ LRelease
    \/ RdIter
    \/ RdNext
    \/ RdRaises
    \/ RdEnd

SpecReaders == InitStates /\ [][NextReaders]_vars

\* C31: an iteration in progress walks the states the graph had when the
\* iteration began, and is never invalidated by a concurrent add_state.
C31_ReadersIterateSnapshot ==
    /\ rd.pc # "raised"
    /\ rd.pc = "iter" => iterated(rd, states) = rd.begun

(***************************************************************************)
(* The stub flag of WebAccess._create_state_data.  A url is [netloc, path, *)
(* query]; ws.entry is <<>> while _entry_state is None and <<url>> after   *)
(* the load, ws.sds the state data created so far, as [url, stub].         *)
(***************************************************************************)
Urls == [netloc : {"site", "other"}, path : {"/", "/x"}, query : 0..1]

\* urls_equal(url1, url2, path, query, fragment) on urls without fragment.
urls_equal(url1, url2, by_path, by_query) ==
    /\ by_path => (url1.netloc = url2.netloc /\ url1.path = url2.path)
    /\ by_query => url1.query = url2.query

\* The comparison of is_state_valid, on the path component alone.
is_state_valid_path(entry, current_url) ==
    entry = <<>> \/ entry[1].path = current_url.path

\* WebAccess.is_state_valid.
is_state_valid(entry, current_url) ==
    entry = <<>> \/ urls_equal(current_url, entry[1], TRUE, FALSE)

wsFrame == <<graphVars, histVars, idleExpl, pa, wt, cp, pt, rp, tp, tb, rd, am, moreVars>>

\* WebAccess.load and the first set_state: the state data of the page
\* loaded, created while _current_state_data is None, becomes the entry.
ULoad ==
    /\ ws.entry = <<>>
    /\ \E url \in Urls :
         ws' = [entry |-> <<url>>, sds |-> {[url |-> url, stub |-> FALSE]}]
    /\ UNCHANGED wsFrame

\* _create_state_data after an action that left the browser at some url.
UCreateStateData ==
    /\ ws.entry # <<>>
    /\ \E url \in Urls :
         ws' = [ws EXCEPT !.sds = @ \cup {[url |-> url,
                                        stub |-> ~is_state_valid(ws.entry, url)]}]
    /\ UNCHANGED wsFrame

NextUrl ==
    \/ ULoad
    \/ UCreateStateData

SpecUrl == InitStates /\ [][NextUrl]_vars

\* C32 (as stated): the path of the url of a stub state differs from the
\* path of the url of the entry state.
C32_StubPathDiffers ==
    \A sd \in ws.sds : sd.stub => sd.url.path # ws.entry[1].path

\* C32 (amended): a state is a stub exactly when the netloc or the path of
\* its url differs from that of the entry state.
C32_StubLocationDiffers ==
    \A sd \in ws.sds :
        sd.stub <=> (sd.url.netloc # ws.entry[1].netloc \/ sd.url.path # ws.entry[1].path)

\* A stub on another host with the path of the entry state, next to a stub
\* of the same host and a state that is no stub.
C32_Witness ==
    /\ \E sd \in ws.sds : sd.stub /\ sd.url.path = ws.entry[1].path
    /\ \E sd \in ws.sds : sd.stub /\ sd.url.netloc = ws.entry[1].netloc
    /\ \E sd \in ws.sds : ~sd.stub /\ sd.url # ws.entry[1]

(***************************************************************************)
(* The property setters of EdgeMetrics and AccessibilityEdgeMetrics.  A    *)
(* value is a number of Scores, NoScore is None.  For the scores, the      *)
(* contrast ratio and the size the greater value is the better one, for    *)
(* act_time and nav_dist the smaller one.                                  *)
(***************************************************************************)
LowerIsBetter == {"act_time", "nav_dist"}

\* ability_score, pcv_score, nav_score, act_score:
\* "if self._x is None or x > self._x: self._x = x".
set_if_greater(old, v) == IF old = NoScore \/ v > old THEN v ELSE old

\* act_time, nav_dist: "if self._x is None or x < self._x: self._x = x".
set_if_less(old, v) == IF old = NoScore \/ v < old THEN v ELSE old

\* contrast_ratio, size: "self._x = x".
set_always(old, v) == v

\* The setter of the property f.
setter(f, old, v) ==
    IF f \in {"contrast_ratio", "size"} THEN set_always(old, v)
    ELSE IF f \in LowerIsBetter THEN set_if_less(old, v)
    ELSE set_if_greater(old, v)

better(f, a, b) == IF f \in LowerIsBetter THEN a < b ELSE a > b

\* metrics.f = v.
MAssign ==
    /\ \E f \in MetricFields, v \in Scores :
         am' = [val |-> [am.val EXCEPT ![f] = setter(f, @, v)],
                best |-> [am.best EXCEPT ![f] =
                            IF @ = NoScore \/ better(f, v, @) THEN v ELSE @]]
    /\ UNCHANGED <<graphVars, histVars, idleExpl, pa, wt, cp, pt, rp, tp, tb, rd, ws, moreVars>>

NextMetrics ==
    \/ MAssign

SpecMetrics == InitStates /\ [][NextMetrics]_vars

\* C33: every numeric field holds the best value assigned to it so far.
C33_MonotoneBest ==
    \A f \in MetricFields : am.val[f] = am.best[f]

(***************************************************************************)
(* HtmlTemplate over documents whose body holds a list of leaf elements    *)
(* without id or class.  An element is [tag, text, reach, ua, ut, ue]:     *)
(* text and reach (the demod_reachable attribute) are the sets of the      *)
(* VALUES_SEPARATOR separated parts of the string, {} for None / absent,   *)
(* {Blank} for a text of spaces, {""} for an attribute of value ""; ua is   *)
(* unstable_attributes, ut unstable_text, ue unstable_element.  Every      *)
(* string the code builds is a sorted join of single parts, every string   *)
(* of an input a single part, so that two strings are equal exactly when   *)
(* their sets of parts are.  For elements without id or class              *)
(* _helper_initial_element_compare returns -1 exactly when the tags        *)
(* differ.  An html string is the list of elements _prepare_tree gives.    *)
(***************************************************************************)
Blank == " "
Element(tag, text, reach) ==
    [tag |-> tag, text |-> text, reach |-> reach, ua |-> {}, ut |-> FALSE, ue |-> FALSE]
\* <p></p>, <p> </p>, <p demod_reachable="true">a</p>, <div>a</div>.
RawEls == {Element("p", {}, {}), Element("p", {Blank}, {}),
           Element("p", {"a"}, {"true"}), Element("div", {"a"}, {})}
MaxChildren == 2
\* add_html calls that merge, and get_updated_template calls, of one run.
MaxHtml == 3
MaxUpdates == 1
Htmls == UNION {[1..n -> RawEls] : n \in 0..MaxChildren}

RemoveAt(list, j) == SubSeq(list, 1, j - 1) \o SubSeq(list, j + 1, Len(list))
LastOf(J) == IF J = {} THEN 0 ELSE CHOOSE j \in J : \A k \in J : k <= j

\* _match_trees on two leaf elements: TRUE when it returns None.
match_trees_lel(lel1, lel2) ==
    \/ lel1 = lel2
    \/ /\ lel1.tag = lel2.tag
       /\ \/ "demod_reachable" \in lel1.ua \cup lel2.ua
          \/ lel1.reach = lel2.reach
       /\ \/ lel1.ut \/ lel2.ut
          \/ lel1.text = lel2.text

\* match_el_to_list_and_remove of _match_trees: index of the match, or 0.
match_el_to_list(el, els_list) ==
    LastOf({j \in 1..Len(els_list) : match_trees_lel(els_list[j], el)})

unreachable(el) == el.reach = {"false"}

\* The children loops of _match_trees; TRUE when no difference is found.
RECURSIVE match_children(_, _, _, _, _, _, _, _)
match_children(lel1, lel2, index1, index2, prev1, prev2, um1, um2) ==
    IF index1 <= Len(lel1) /\ index2 <= Len(lel2)
    THEN LET c1 == lel1[index1]
             c2 == lel2[index2]
             j1 == match_el_to_list(c2, um1)
             j2 == match_el_to_list(c1, um2)
             skip1 == match_children(lel1, lel2, index1 + 1, index2, index1, index2,
                                     Append(um1, c1), um2)
             skip2 == match_children(lel1, lel2, index1, index2 + 1, index1, index2,
                                     um1, Append(um2, c2))
         IN  IF match_trees_lel(c1, c2)
             THEN match_children(lel1, lel2, index1 + 1, index2 + 1, index1, index2, um1, um2)
             ELSE IF index2 > prev2 /\ j1 # 0
             THEN match_children(lel1, lel2, index1, index2 + 1, index1, index2,
                                 RemoveAt(um1, j1), um2)
             ELSE IF index1 > prev1 /\ j2 # 0
             THEN match_children(lel1, lel2, index1 + 1, index2, index1, index2,
                                 um1, RemoveAt(um2, j2))
             ELSE IF index1 < index2 /\ c1.ue THEN skip1
             ELSE IF index1 > index2 /\ c2.ue THEN skip2
             ELSE IF Len(lel1) < Len(lel2) /\ c2.ue THEN skip2
             ELSE IF c1.ue THEN skip1
             ELSE IF c2.ue THEN skip2
             ELSE FALSE
    ELSE IF index1 <= Len(lel1)
    THEN LET c1 == lel1[index1]
             j2 == match_el_to_list(c1, um2)
         IN  IF unreachable(c1)
             THEN match_children(lel1, lel2, index1 + 1, index2, prev1, prev2, um1, um2)
             ELSE IF j2 # 0
             THEN match_children(lel1, lel2, index1 + 1, index2, prev1, prev2,
                                 um1, RemoveAt(um2, j2))
             ELSE IF c1.ue
             THEN match_children(lel1, lel2, index1 + 1, index2, prev1, prev2, um1, um2)
             ELSE FALSE
    ELSE IF index2 <= Len(lel2)
    THEN LET c2 == lel2[index2]
             j1 == match_el_to_list(c2, um1)
         IN  IF unreachable(c2)
             THEN match_children(lel1, lel2, index1, index2 + 1, prev1, prev2, um1, um2)
             ELSE IF j1 # 0
             THEN match_children(lel1, lel2, index1, index2 + 1, prev1, prev2,
                                 RemoveAt(um1, j1), um2)
             ELSE IF c2.ue
             THEN match_children(lel1, lel2, index1, index2 + 1, prev1, prev2, um1, um2)
             ELSE FALSE
    ELSE TRUE

\* HtmlTemplate.matches_tree / matches_html on the children of the bodies.
matches_tree(kids, tree) ==
    kids = tree \/ match_children(kids, tree, 1, 1, 1, 1, <<>>, <<>>)

\* The values of a text: None and a text of spaces have none.
text_values(text) == IF text = {Blank} THEN {} ELSE text

\* _helper_combine_text: the text and the unstable_text marker it sets.
helper_combine_text(lel1, lel2, overwrite) ==
    IF text_values(lel1.text) # text_values(lel2.text)
    THEN IF ~overwrite \/ lel1.ut \/ lel2.ut
         THEN [text |-> text_values(lel1.text) \cup text_values(lel2.text), ut |-> TRUE]
         ELSE [text |-> lel2.text, ut |-> FALSE]
    ELSE [text |-> lel2.text, ut |-> FALSE]

\* _helper_combine_attributes for demod_reachable: "".join of no value is "".
helper_combine_attributes(lel1, lel2, overwrite) ==
    IF lel1.reach # lel2.reach
    THEN IF ~overwrite \/ "demod_reachable" \in lel1.ua \cup lel2.ua
         THEN [reach |-> lel1.reach \cup lel2.reach,
               ua |-> lel1.ua \cup lel2.ua \cup {"demod_reachable"}]
         ELSE [reach |-> IF lel2.reach = {} THEN {""} ELSE lel2.reach,
               ua |-> lel1.ua \cup lel2.ua]
    ELSE [reach |-> lel2.reach, ua |-> lel1.ua \cup lel2.ua]

\* _get_merged_tree on two leaf elements: ok is FALSE for a result of None.
get_merged_tree_lel(lel1, lel2, overwrite) ==
    IF lel1 = lel2 THEN [ok |-> TRUE, el |-> lel1]
    ELSE IF lel1.tag # lel2.tag THEN [ok |-> FALSE, el |-> lel1]
    ELSE LET a == helper_combine_attributes(lel1, lel2, overwrite)
             t == helper_combine_text(lel1, lel2, overwrite)
         IN  [ok |-> TRUE,
              el |-> [tag |-> lel1.tag, text |-> t.text, reach |-> a.reach, ua |-> a.ua,
                      ut |-> lel1.ut \/ lel2.ut \/ t.ut, ue |-> lel1.ue \/ lel2.ue]]

is_unstable(el) == el.ue \/ el.ut \/ el.ua # {}

\* match_el_to_list_and_remove of _helper_combine_children; the list holds
\* [el, pos], pos being the place of the copy in el_result.
merge_el_to_list(el, els_list, overwrite) ==
    LastOf({j \in 1..Len(els_list) :
              /\ is_unstable(el) \/ is_unstable(els_list[j].el)
              /\ get_merged_tree_lel(els_list[j].el, el, overwrite).ok})

replace_child(res, um, j, el, overwrite) ==
    [res EXCEPT ![um[j].pos] = get_merged_tree_lel(um[j].el, el, overwrite).el]

\* The children loops of _helper_combine_children and its final removal.
RECURSIVE helper_combine_children(_, _, _, _, _, _, _, _, _, _)
helper_combine_children(lel1, lel2, overwrite, index1, index2, prev1, prev2, um1, um2, res) ==
    IF index1 <= Len(lel1) /\ index2 <= Len(lel2)
    THEN LET c1 == lel1[index1]
             c2 == lel2[index2]
             m == get_merged_tree_lel(c1, c2, overwrite)
             j1 == merge_el_to_list(c2, um1, overwrite)
             j2 == merge_el_to_list(c1, um2, overwrite)
             cchild1 == [c1 EXCEPT !.ue = @ \/ ~overwrite]
             cchild2 == [c2 EXCEPT !.ue = @ \/ ~overwrite]
             skip1 == helper_combine_children(lel1, lel2, overwrite, index1 + 1, index2,
                          index1, index2,
                          Append(um1, [el |-> cchild1, pos |-> Len(res) + 1]), um2,
                          Append(res, cchild1))
             skip2 == helper_combine_children(lel1, lel2, overwrite, index1, index2 + 1,
                          index1, index2,
                          um1, Append(um2, [el |-> cchild2, pos |-> Len(res) + 1]),
                          Append(res, cchild2))
         IN  IF m.ok
             THEN helper_combine_children(lel1, lel2, overwrite, index1 + 1, index2 + 1,
                      index1, index2, um1, um2,
                      Append(res, [m.el EXCEPT !.ue = @ \/ c1.ue \/ c2.ue]))
             ELSE IF index2 > prev2 /\ j1 # 0
             THEN helper_combine_children(lel1, lel2, overwrite, index1, index2 + 1,
                      index1, index2, RemoveAt(um1, j1), um2,
                      replace_child(res, um1, j1, c2, overwrite))
             ELSE IF index1 > prev1 /\ j2 # 0
             THEN helper_combine_children(lel1, lel2, overwrite, index1 + 1, index2,
                      index1, index2, um1, RemoveAt(um2, j2),
                      replace_child(res, um2, j2, c1, overwrite))
             ELSE IF index1 < index2 THEN skip1
             ELSE IF index1 > index2 THEN skip2
             ELSE IF Len(lel1) < Len(lel2) THEN skip2
             ELSE skip1
    ELSE IF index1 <= Len(lel1)
    THEN LET c1 == lel1[index1]
             j2 == merge_el_to_list(c1, um2, overwrite)
         IN  IF j2 # 0
             THEN helper_combine_children(lel1, lel2, overwrite, index1 + 1, index2,
                      prev1, prev2, um1, RemoveAt(um2, j2),
                      replace_child(res, um2, j2, c1, overwrite))
             ELSE IF ~overwrite \/ c1.ue
             THEN helper_combine_children(lel1, lel2, overwrite, index1 + 1, index2,
                      prev1, prev2, um1, um2, Append(res, [c1 EXCEPT !.ue = TRUE]))
             ELSE helper_combine_children(lel1, lel2, overwrite, index1 + 1, index2,
                      prev1, prev2, um1, um2, res)
    ELSE IF index2 <= Len(lel2)
    THEN LET c2 == lel2[index2]
             j1 == merge_el_to_list(c2, um1, overwrite)
         IN  IF j1 # 0
             THEN helper_combine_children(lel1, lel2, overwrite, index1, index2 + 1,
                      prev1, prev2, RemoveAt(um1, j1), um2,
                      replace_child(res, um1, j1, c2, overwrite))
             ELSE helper_combine_children(lel1, lel2, overwrite, index1, index2 + 1,
                      prev1, prev2, um1, um2,
                      Append(res, [c2 EXCEPT !.ue = @ \/ ~overwrite]))
    ELSE LET removed == IF overwrite
                        THEN {um1[j].pos : j \in {k \in 1..Len(um1) : ~um1[k].el.ue}}
                        ELSE {}
         IN  SelectSeq([k \in 1..Len(res) |-> [el |-> res[k], pos |-> k]],
                       LAMBDA x : x.pos \notin removed)

\* _get_merged_tree on html / body: the children of the merged body.
merged_kids(kids, tree, overwrite) ==
    IF kids = tree THEN kids
    ELSE LET r == helper_combine_children(kids, tree, overwrite, 1, 1, 1, 1, <<>>, <<>>, <<>>)
         IN  [k \in 1..Len(r) |-> r[k].el]

\* HtmlTemplate.add_tree.
add_tree(t, tree) ==
    IF t.none THEN [t EXCEPT !.none = FALSE, !.kids = tree]
    ELSE [t EXCEPT !.kids = merged_kids(t.kids, tree, FALSE)]

\* HtmlTemplate.add_html.
add_html(t, h) ==
    IF h \in t.htmlstrings THEN t
    ELSE add_tree([t EXCEPT !.htmlstrings = @ \cup {h}], h)

\* roottree.getpath of the child at place i: the tag, and its number among
\* the siblings of that tag (0 when it is the only one).
getpath(kids, i) ==
    [tag |-> kids[i].tag,
     idx |-> IF Cardinality({j \in 1..Len(kids) : kids[j].tag = kids[i].tag}) = 1
             THEN 0
             ELSE Cardinality({j \in 1..i : kids[j].tag = kids[i].tag})]

\* HtmlTemplate.get_unstable_xpaths.
unstable_xpaths(kids) ==
    {getpath(kids, i) : i \in {j \in 1..Len(kids) : is_unstable(kids[j])}}

\* add_html(h) on the template.
TAddHtml ==
    /\ \E h \in Htmls :
         /\ h \notin tp.htmlstrings
         /\ tp.adds < MaxHtml
         /\ tp' = [add_html(tp, h) EXCEPT !.adds = @ + 1]
    /\ UNCHANGED <<graphVars, histVars, idleExpl, pa, wt, cp, pt, rp, tb, auxVars>>

\* get_updated_template(h) on a template that holds a tree.
TGetUpdated ==
    /\ ~tp.none
    /\ tp.updates < MaxUpdates
    /\ \E h \in Htmls :
         tp' = [tp EXCEPT !.updates = @ + 1, !.upd =
                  [def |-> TRUE, h |-> h, from |-> tp.kids,
                   self |-> h \in tp.htmlstrings,
                   kids |-> IF h \in tp.htmlstrings THEN tp.kids
                            ELSE merged_kids(tp.kids, h, TRUE)]]
    /\ UNCHANGED <<graphVars, histVars, idleExpl, pa, wt, cp, pt, rp, tb, auxVars>>

\* sd.template = template.get_updated_template(sd.dom): the returned
\* template is the one that goes on.
TAssign ==
    /\ tp.upd.def
    /\ tp' = [htmlstrings |-> IF tp.upd.self THEN tp.htmlstrings ELSE {},
              none |-> FALSE, kids |-> tp.upd.kids, upd |-> NoUpdate,
              adds |-> tp.adds, updates |-> tp.updates]
    /\ UNCHANGED <<graphVars, histVars, idleExpl, pa, wt, cp, pt, rp, tb, auxVars>>

NextTemplate ==
    \/ TAddHtml
    \/ TGetUpdated
    \/ TAssign

SpecTemplate == InitStates /\ [][NextTemplate]_vars

\* C26: the template matches every html string that was added to it, after
\* the merge of that string and after every later merge.
C26_TemplateMatchesAddedHtml ==
    \A h \in tp.htmlstrings : matches_tree(tp.kids, h)

\* C27: the template returned by get_updated_template(h) matches h.
C27_UpdatedTemplateMatches ==
    tp.upd.def => matches_tree(tp.upd.kids, tp.upd.h)

\* C28: every xpath that is unstable in the template is unstable in the
\* template returned by get_updated_template.
C28_UpdateKeepsUnstableXpaths ==
    tp.upd.def => unstable_xpaths(tp.upd.from) \subseteq unstable_xpaths(tp.upd.kids)

(***************************************************************************)
(* WebAccess.generate_tab_order and the keyboard trap analysis.  Elements  *)
(* are their xpaths, "None" is None; the page decides where a tab key      *)
(* moves the focus, or that the element cannot take the key                *)
(* (ElementNotInteractableException).  tb.num_visits is num_visits of      *)
(* tab_els, 0 for an xpath that is not in tab_els; tb.raised tells that an *)
(* ElementNotInteractableException was logged, tb.halted that the loop was *)
(* left on a likely keyboard trap.                                         *)
(***************************************************************************)
Body == "/html/body"
XPaths == {Body, "/html/body/a", "/html/body/b", "/html/body/c"}
\* self._max_tabs
MaxTabs == 5
NUM_REVISITS == 2
\* The num_visits the analyzer takes for a keyboard trap.
TrapVisits == 3

\* The loop test without the bound on recorded_tabbable.
loop_cond_unbounded(t) == t.first_el # t.active_el

\* while first_el != active_el and recorded_tabbable < self._max_tabs
loop_cond(t) == t.first_el # t.active_el /\ t.recorded_tabbable < MaxTabs

\* The element the iteration records.
loop_el(t) == IF t.recorded_tabbable = 0 THEN t.first_el ELSE t.active_el

\* The break of the iteration: the xpath is in tab_els and its num_visits
\* goes over NUM_REVISITS.
loop_breaks(t) == t.num_visits[loop_el(t)] + 1 > NUM_REVISITS

\* The record of an iteration that goes on to the tab key.
loop_record(t, next) ==
    [t EXCEPT !.tab_els_by_index = Append(@, loop_el(t)),
              !.num_visits[loop_el(t)] = @ + 1,
              !.recorded_tabbable = @ + 1,
              !.active_el = next]

tbFrame == <<graphVars, histVars, idleExpl, pa, wt, cp, pt, rp, tp, auxVars>>

\* focus_first_tabbable and the state before the loop.
TbCall ==
    /\ tb.pc = "idle"
    /\ \E f \in XPaths :
         tb' = [NoTabOrder EXCEPT !.pc = "loop", !.first_el = f,
                                  !.num_visits = [x \in XPaths |-> 0]]
    /\ UNCHANGED tbFrame

\* An iteration whose tab key moves the focus to some element.
TbTab ==
    /\ tb.pc = "loop" /\ loop_cond(tb) /\ ~loop_breaks(tb)
    /\ \E next \in XPaths : tb' = loop_record(tb, next)
    /\ UNCHANGED tbFrame

\* An iteration whose send_keys raises ElementNotInteractableException.
TbTabRaises ==
    /\ tb.pc = "loop" /\ loop_cond(tb) /\ ~loop_breaks(tb)
    /\ tb' = [loop_record(tb, loop_el(tb)) EXCEPT !.raised = TRUE]
    /\ UNCHANGED tbFrame

\* An iteration that halts on a likely keyboard trap, and the return.
TbTrap ==
    /\ tb.pc = "loop" /\ loop_cond(tb) /\ loop_breaks(tb)
    /\ tb' = [tb EXCEPT !.tab_els_by_index = Append(@, loop_el(tb)),
                        !.num_visits[loop_el(tb)] = @ + 1,
                        !.active_el = loop_el(tb),
                        !.halted = TRUE, !.pc = "done"]
    /\ UNCHANGED tbFrame

\* The loop test fails: the focus is reset and the results are returned.
TbReturn ==
    /\ tb.pc = "loop" /\ ~loop_cond(tb)
    /\ tb' = [tb EXCEPT !.pc = "done"]
    /\ UNCHANGED tbFrame

\* The keyboard_trap_el the focus analysis computes for the state.
keyboard_trap(by_index, num_visits) ==
    IF \E i \in 1..Len(by_index) :
           by_index[i] # Body /\ num_visits[by_index[i]] = TrapVisits
    THEN IF by_index[Len(by_index) - 1] = Body
         THEN by_index[Len(by_index)]
         ELSE by_index[Len(by_index) - 1]
    ELSE "None"

\* _sc_2_4_3: one violation when the state has a keyboard trap recorded.
sc_2_4_3(trap_el) == IF trap_el # "None" THEN <<trap_el>> ELSE <<>>

\* The analyzer on the saved tab order of the state.
TbAnalyze ==
    /\ tb.pc = "done"
    /\ LET el == keyboard_trap(tb.tab_els_by_index, tb.num_visits)
       IN  tb' = [tb EXCEPT !.pc = "analyzed", !.keyboard_trap_el = el,
                            !.violations = sc_2_4_3(el)]
    /\ UNCHANGED tbFrame

TbLoop ==
    \/ TbTab
    \/ TbTabRaises
    \/ TbTrap
    \/ TbReturn

NextTab ==
    \/ TbCall
    \/ TbTab
    \/ TbTabRaises
    \/ TbTrap
    \/ TbReturn
    \/ TbAnalyze

\* The thread that called generate_tab_order keeps running: every selenium
\* call of an iteration returns or raises.
SpecTab == InitStates /\ [][NextTab]_vars /\ WF_vars(TbLoop)

\* C29: generate_tab_order returns for every focus behaviour, and records
\* at most _max_tabs tab stops.
C29_TabOrderTerminates ==
    /\ [](Len(tb.tab_els_by_index) <= MaxTabs /\ tb.recorded_tabbable <= MaxTabs)
    /\ (tb.pc = "loop") ~> (tb.pc = "done")

\* The run stopped at the bound, in a cycle that did not come back to the
\* first element and held an element that cannot take the tab key.
C29_Witness ==
    /\ tb.pc = "done" /\ ~tb.halted
    /\ Len(tb.tab_els_by_index) = MaxTabs
    /\ tb.active_el # tb.first_el
    /\ tb.raised

\* C30: a keyboard trap is reported exactly when some element was visited
\* more than NUM_REVISITS times, by exactly one violation, which names an
\* element that was visited that often.
C30_TrapReportedIffRevisited ==
    tb.pc = "analyzed" =>
        /\ (tb.violations # <<>>) <=> (\E x \in XPaths : tb.num_visits[x] > NUM_REVISITS)
        /\ Len(tb.violations) <= 1
        /\ tb.violations # <<>> => tb.num_visits[tb.violations[1]] > NUM_REVISITS

(***************************************************************************)
(* Two runs of Controller.build_graph on one deterministic interface.      *)
(* The interface answers an action on an element by a state data, always   *)
(* the same one (og.iface).  get_actions() returns the set cls._actions,   *)
(* whose members hash by hash(str(self)): the order in which a process     *)
(* iterates the set follows the string hashes of that process, so each     *)
(* run draws one (og.order[r]).  The elements of an action are sorted.     *)
(* A run holds its graph as g: ids (the data of the state of each id, in   *)
(* id order), edges, paths (the build user's path of each id) and          *)
(* states_to_visit.                                                        *)
(***************************************************************************)
\* State datas the page can show (0..MaxData; 0 is the start page).
MaxData == 2
\* Elements each action applies to.
NumEls == 2
ActionNames == {"click", "key"}
OData == 0..MaxData
OEls == 1..NumEls
Interfaces == [ActionNames \X OEls -> OData]
\* The orders in which "for action in self.access.get_actions()" can give
\* out the set.
Orders == {o \in [1..2 -> ActionNames] : o[1] # o[2]}

ogFrame == <<graphVars, histVars, idleExpl, pa, wt, cp, pt, rp, tp, tb, rd, ws, am, tr, pp, vr>>

\* "for action in ...: els = sorted(action.get_elements(self.access));
\* for el in els": the pairs in the order they are tried.
sorted_moves(o) ==
    [k \in 1..(2 * NumEls) |-> <<o[((k - 1) \div NumEls) + 1], ((k - 1) % NumEls) + 1>>]

\* get_actions(): cls._actions, iterated in the order of this process.
get_actions == Orders

\* The id of the state holding data d in the graph, 0 if none (ids here
\* count from 1).
id_of(ids, d) ==
    IF \E k \in 1..Len(ids) : ids[k] = d
    THEN CHOOSE k \in 1..Len(ids) : ids[k] = d
    ELSE 0

\* The body of the inner loop for one (action, element) on state s.
try_move(g, s, mv, iface) ==
    LET d == iface[mv]
        k == id_of(g.ids, d)
        n == IF k = 0 THEN Len(g.ids) + 1 ELSE k
        e == [state1 |-> s, state2 |-> n, action |-> mv[1], element |-> mv[2]]
    IN  IF d = g.ids[s] THEN g
        ELSE [ids |-> IF k = 0 THEN Append(g.ids, d) ELSE g.ids,
              edges |-> g.edges \cup {e},
              paths |-> IF k = 0 THEN Append(g.paths, Append(g.paths[s], e)) ELSE g.paths,
              states_to_visit |-> IF k = 0 THEN Append(g.states_to_visit, n)
                                  ELSE g.states_to_visit]

RECURSIVE expand(_, _, _, _)
expand(g, s, mvs, iface) ==
    IF mvs = <<>> THEN g
    ELSE expand(try_move(g, s, Head(mvs), iface), s, Tail(mvs), iface)

\* graph = Graph(); add_state(get_state_data()); set_user_path(user, []).
NewRun == [ids |-> <<0>>, edges |-> {}, paths |-> << <<>> >>, states_to_visit |-> <<1>>]

\* build_graph is called in a fresh process, on the start page.
OBuild ==
    /\ og.pc \in {"idle", "returned"}
    /\ \E o \in get_actions :
         IF og.pc = "idle"
         THEN \E i \in Interfaces :
                og' = [pc |-> "run", run |-> 1, iface |-> i,
                       order |-> <<o, o>>, g |-> <<NewRun, NewRun>>]
         ELSE /\ og.run = 1
              /\ og' = [og EXCEPT !.pc = "run", !.run = 2, !.order[2] = o]
    /\ UNCHANGED ogFrame

\* One turn of "while len(states_to_visit) > 0".
OExpand ==
    /\ og.pc = "run"
    /\ og.g[og.run].states_to_visit # <<>>
    /\ LET g == og.g[og.run]
           s == Head(g.states_to_visit)
           popped == [g EXCEPT !.states_to_visit = Tail(@)]
       IN  og' = [og EXCEPT !.g[og.run] =
                     expand(popped, s, sorted_moves(og.order[og.run]), og.iface)]
    /\ UNCHANGED ogFrame

\* "return graph".
OReturn ==
    /\ og.pc = "run"
    /\ og.g[og.run].states_to_visit = <<>>
    /\ og' = [og EXCEPT !.pc = IF og.run = 1 THEN "returned" ELSE "done"]
    /\ UNCHANGED ogFrame

NextOrder ==
    \/ OBuild
    \/ OExpand
    \/ OReturn

SpecOrder == InitStates /\ [][NextOrder]_vars

\* C34: two runs of build_graph on one deterministic interface give every
\* state the same id and produce the same edges and the same user paths.
C34_RunsAgree ==
    og.pc = "done" => og.g[1] = og.g[2]

(***************************************************************************)
(* The explorers around perform_action_on_element: what                    *)
(* Controller.build_graph and ControllerReduced._try_edge_update_graph do  *)
(* with the EdgeMetrics a call returned.  tr.edges holds, for every edge   *)
(* stored, the metrics given to add_data_for_user for the build user;      *)
(* tr.changed tells that the call replaced the current state data by one   *)
(* that differs from the data of the state being expanded.  tr.in_state    *)
(* tells that the interface is in the state the explorer is expanding,     *)
(* tr.started that it was when the explorer was ready for its latest       *)
(* attempt, tr.moved that the dom is no longer the prev_dom of the call,   *)
(* tr.tries counts the attempts the explorer has dealt with.               *)
(***************************************************************************)
trFrame == <<graphVars, histVars, idleExpl, wt, cp, pt, rp, tp, tb, rd, ws, am, og, pp, vr>>

\* (action, element) pairs the explorer tries.
MaxTries == 3

\* graph.add_edge(...); new_edge.add_data_for_user(user, edge_metrics).
store_edge(t, variant, em) ==
    [t EXCEPT !.edges = @ \cup {[variant |-> variant, metrics |-> em,
                                  started |-> t.started]},
              !.retried = FALSE, !.changed = FALSE]

\* WebAccess.set_state(state): the raw dom is loaded again and the edges of
\* the state's path are replayed.
set_state(t) ==
    [t EXCEPT !.in_state = TRUE, !.started = TRUE, !.moved = FALSE, !.tries = @ + 1]

\* The explorer goes on to its next attempt without touching the interface.
keep_interface(t) == [t EXCEPT !.started = t.in_state, !.moved = FALSE, !.tries = @ + 1]

\* Access.set_state_direct(state): only _current_state and
\* _current_state_data are assigned.
set_state_direct(t) == keep_interface(t)

\* The reduced explorer goes on from the state it found, which the
\* interface is in.
go_on_from_found(t) ==
    [t EXCEPT !.in_state = TRUE, !.started = TRUE, !.moved = FALSE, !.tries = @ + 1]

\* The page answers the action that _execute_simple sent it (before or
\* while _execute_simple raised, if it did) by going to another state than
\* the one being expanded.
BEffect ==
    /\ pa.pc = "dom" /\ pa.em.ability_score > 0
    /\ ~tr.moved
    /\ tr' = [tr EXCEPT !.in_state = FALSE, !.moved = TRUE]
    /\ UNCHANGED pa
    /\ UNCHANGED trFrame

\* _get_dom raises TimeoutException / WebDriverException: the browser is
\* restarted and set_state(self._current_state) replays to the state.
BDomTimeout ==
    /\ pa.pc = "dom"
    /\ pa' = round_end(pa)
    /\ tr' = [tr EXCEPT !.in_state = TRUE, !.moved = ~tr.started]
    /\ UNCHANGED trFrame

\* perform_action_on_element after the retry loop: the dom comparison and
\* the update of the current state data; only here does the state data
\* change.
BReturn ==
    /\ pa.pc = "after"
    /\ pa' = [pa EXCEPT !.pc = "returned"]
    /\ tr' = [tr EXCEPT !.changed = tr.moved /\ ~tr.in_state]
    /\ UNCHANGED trFrame

\* Controller.build_graph: "if edge_metrics.ability_score > 0.0:" and the
\* comparison of the new state data with state.data.
BTry ==
    /\ pa.pc = "returned" /\ ~tr.retried
    /\ tr.tries < MaxTries
    /\ tr' = IF pa.em.ability_score > 0
             THEN IF tr.changed
                  THEN set_state(store_edge(tr, "single", pa.em))
                  ELSE set_state_direct(tr)
             ELSE keep_interface([tr EXCEPT !.changed = FALSE])
    /\ pa' = [pc |-> "idle"]
    /\ UNCHANGED trFrame

\* _try_edge_update_graph: "if edge_metrics.error is not None:" the state
\* is set again and the action performed a second time.
BReducedRetry ==
    /\ pa.pc = "returned" /\ ~tr.retried
    /\ tr.tries < MaxTries
    /\ pa.em.error
    /\ tr' = set_state([tr EXCEPT !.retried = TRUE, !.changed = FALSE])
    /\ pa' = [pc |-> "idle"]
    /\ UNCHANGED trFrame

\* _try_edge_update_graph from "if edge_metrics.ability_score == 0.0:" on.
BReducedTry ==
    /\ pa.pc = "returned"
    /\ tr.tries < MaxTries
    /\ tr.retried \/ ~pa.em.error
    /\ tr' = IF pa.em.ability_score = 0
             THEN keep_interface([tr EXCEPT !.retried = FALSE, !.changed = FALSE])
             ELSE IF tr.changed
                  THEN go_on_from_found(store_edge(tr, "reduced", pa.em))
                  ELSE set_state_direct([tr EXCEPT !.retried = FALSE])
    /\ pa' = [pc |-> "idle"]
    /\ UNCHANGED trFrame

NextTry ==
    \/ PCall
    \/ PCallRaises
    \/ PElementMissing
    \/ PExecuteOk
    \/ PExecuteTimeout
    \/ PExecuteCoveredDismissed
    \/ PExecuteFails
    \/ PDomOk
    \/ BDomTimeout
    \/ PDomTimeoutReplayRaises
    \/ PDomError
    \/ BReturn
    \/ BEffect
    \/ PReturnRaises
    \/ BTry
    \/ BReducedRetry
    \/ BReducedTry

SpecTry == InitStates /\ [][NextTry]_vars

\* C35: every edge stored in the graph carries build-user metrics with an
\* ability score above 0 and without an error marker.
C35_NoEdgeForFailedAction ==
    \A e \in tr.edges : e.metrics.ability_score > 0 /\ ~e.metrics.error

\* C36: whenever an explorer attempts an (action, element) pair on the state
\* it expands, the interface is in that state, and every edge stored was
\* observed from it.
C36_AttemptsStartInState ==
    /\ tr.started
    /\ \A e \in tr.edges : e.started

(***************************************************************************)
(* The pooled reduced explorer: MultiControllerReduced.build_graph, the    *)
(* workers of its pool running build_reduced, and the graph they share.    *)
(* A state is its id; the page is deterministic, pp.dest holds what each   *)
(* (state, move) has been seen to lead to.  pp.paths holds the build       *)
(* user's path of the states that have one, pp.w the position of each      *)
(* worker: the state of its task, the move it is at, the source of its     *)
(* current attempt, states_found, states_found_this_time (sft) and the     *)
(* repeat count.  Every action is taken to be repeatable and to have no    *)
(* reverse action, and the pages are those where no move leads back to a   *)
(* state found earlier.                                                    *)
(***************************************************************************)
\* States the page of the pooled run can show.
MaxPoolStates == 5
ppFrame == <<graphVars, histVars, idleExpl, pa, wt, cp, pt, rp, tp, tb, rd, ws, am, og, tr, vr>>

IdleWorker == [pc |-> "idle"]

\* The worker starts on a state: access.set_state(state), the first move.
start_on(s) ==
    [pc |-> "try", state |-> s, m |-> 1, src |-> s, states_found |-> <<>>,
     sft |-> {s}, count |-> 0, new |-> 0]

\* After an attempt that found state d: the repeat loop goes on from d, or
\* the worker puts the old state back and turns to the next move.
after_found(wk, d) ==
    IF d \notin wk.sft /\ wk.count < RepeatBound
    THEN [wk EXCEPT !.pc = "try", !.src = d, !.sft = @ \cup {d}, !.count = @ + 1]
    ELSE [wk EXCEPT !.pc = "try", !.src = wk.state, !.m = @ + 1,
                    !.sft = {wk.state}, !.count = 0]

\* After an attempt that found nothing (score 0 or the state unchanged).
after_none(wk) ==
    [wk EXCEPT !.pc = "try", !.src = wk.state, !.m = @ + 1,
               !.sft = {wk.state}, !.count = 0]

\* State.get_user_path gives None for a state without it.
has_user_path(paths, s) == s \in DOMAIN paths

\* MultiControllerReduced.build_graph: add_task(build_reduced) with no
\* state; the worker that takes it loads the page, adds the start state and
\* records its empty path.
PlBuild ==
    /\ pp.pc = "idle"
    /\ \E w \in Workers :
         pp' = [pc |-> "run", states |-> {0}, paths |-> (0 :> <<>>), edges |-> {},
                dest |-> <<>>, queue |-> <<>>,
                w |-> [v \in Workers |-> IF v = w THEN start_on(0) ELSE IdleWorker]]
    /\ UNCHANGED ppFrame

\* Worker.run: self.queue.get() and the call of build_reduced.
PlGet(w) ==
    /\ pp.pc = "run"
    /\ pp.w[w].pc = "idle"
    /\ pp.queue # <<>>
    /\ pp' = [pp EXCEPT !.queue = Tail(@), !.w[w] = start_on(Head(pp.queue))]
    /\ UNCHANGED ppFrame

\* _try_edge_update_graph up to add_edge / add_data_for_user.  d is where
\* the move leads: the source itself (nothing found), a state of the graph
\* or a new one, which gets the next id.
PlTry(w) ==
    /\ pp.pc = "run"
    /\ pp.w[w].pc = "try" /\ pp.w[w].m <= NumMoves
    /\ LET wk == pp.w[w]
           key == <<wk.src, wk.m>>
           n == Cardinality(pp.states)
       IN  \E d \in wk.src..n :
             /\ d < MaxPoolStates
             /\ key \in DOMAIN pp.dest => d = pp.dest[key]
             /\ pp' = IF d = wk.src
                      THEN [pp EXCEPT !.dest = (key :> d) @@ @, !.w[w] = after_none(wk)]
                      ELSE IF d \in pp.states
                      THEN [pp EXCEPT !.dest = (key :> d) @@ @,
                                      !.edges = @ \cup {<<wk.src, d, wk.m>>},
                                      !.w[w] = after_found(wk, d)]
                      ELSE [pp EXCEPT !.dest = (key :> d) @@ @,
                                      !.states = @ \cup {d},
                                      !.edges = @ \cup {<<wk.src, d, wk.m>>},
                                      !.w[w] = [wk EXCEPT !.pc = "added", !.new = d,
                                                  !.states_found = Append(@, d)]]
    /\ UNCHANGED ppFrame

\* _try_edge_update_graph after get_screenshot and generate_tab_order:
\* new_state.set_user_path(user, state.get_user_path(user) + [new_edge]);
\* None + [new_edge] raises TypeError, which Worker.run catches.
PlSetPath(w) ==
    /\ pp.pc = "run"
    /\ pp.w[w].pc = "added"
    /\ LET wk == pp.w[w]
       IN  pp' = IF has_user_path(pp.paths, wk.src)
                 THEN [pp EXCEPT !.paths = (wk.new :> Append(pp.paths[wk.src],
                                                             <<wk.src, wk.new, wk.m>>)) @@ @,
                                 !.w[w] = after_found(wk, wk.new)]
                 ELSE [pp EXCEPT !.w[w].pc = "raised"]
    /\ UNCHANGED ppFrame

\* build_reduced returns states_found; Worker.run goes on with the last
\* state and puts the others on the queue, or marks the task done.
PlReturn(w) ==
    /\ pp.pc = "run"
    /\ pp.w[w].pc = "try" /\ pp.w[w].m > NumMoves
    /\ LET f == pp.w[w].states_found
       IN  pp' = IF f = <<>>
                 THEN [pp EXCEPT !.w[w] = IdleWorker]
                 ELSE [pp EXCEPT !.queue = @ \o SubSeq(f, 1, Len(f) - 1),
                                 !.w[w] = start_on(f[Len(f)])]
    /\ UNCHANGED ppFrame

\* Worker.run: "except Exception as e" logs the error, the task is marked
\* done and the states it had found are dropped.
PlCaught(w) ==
    /\ pp.pc = "run"
    /\ pp.w[w].pc = "raised"
    /\ pp' = [pp EXCEPT !.w[w] = IdleWorker]
    /\ UNCHANGED ppFrame

NextPool ==
    \/ PlBuild
    \/ \E w \in Workers : PlGet(w)
    \/ \E w \in Workers : PlTry(w)
    \/ \E w \in Workers : PlSetPath(w)
    \/ \E w \in Workers : PlReturn(w)
    \/ \E w \in Workers : PlCaught(w)

SpecPool == InitStates /\ [][NextPool]_vars

\* A recorded path is a chain of edges of the graph from the start state to
\* the state it is recorded on.
connected(p, s) ==
    /\ \A k \in 1..Len(p) : p[k] \in pp.edges
    /\ \A k \in 1..Len(p) : p[k][1] = (IF k = 1 THEN 0 ELSE p[k - 1][2])
    /\ (IF p = <<>> THEN 0 ELSE p[Len(p)][2]) = s

\* C37: in the pooled reduced explorer, whenever a worker records the path
\* of a new state as path(source) ++ [new_edge] the source has a path, and
\* every recorded path is a connected chain from the start state.
C37_SourceHasPath ==
    pp.pc = "run" =>
        /\ \A w \in Workers : pp.w[w].pc # "raised"
        /\ \A s \in DOMAIN pp.paths : connected(pp.paths[s], s)

(***************************************************************************)
(* The two reduced explorers on the same deterministic page:               *)
(* ControllerReduced.build_graph ("single") and build_reduced run by one   *)
(* worker ("pool").  The page has one element to explore, in its start     *)
(* state 0, and the states it leads to bring no further element; an        *)
(* action on the element takes the page from state s to vr.fwd[s] (s       *)
(* itself: no change) and its reverse action to vr.rev[s].  A state is     *)
(* named by its page state, so the graphs of the two explorers are         *)
(* compared as they are.  vr.run[v] is the explorer v: the fields of the   *)
(* repeat / reverse chain as in rp, the states and the edges of its graph. *)
(***************************************************************************)
\* Page states of the compared page (0..MaxPageState).
MaxPageState == 2
PageStates == 0..MaxPageState
Variants == {"single", "pool"}
vrFrame == <<graphVars, histVars, idleExpl, pa, wt, cp, pt, rp, tp, tb, rd, ws, am, og, tr, pp>>

\* What performing the action does with the interface in state at, for an
\* explorer whose graph holds the states known.
page_outcome(dest, at, known) ==
    IF dest[at] = at THEN [kind |-> "same", id |-> NoState]
    ELSE [kind |-> "state", id |-> dest[at]]

\* _try_edge_update_graph(state = s, ...) of explorer v on the page.
try_on_page(v, r, s, fwd) ==
    LET o == page_outcome(fwd, r.at, r.states)
        t == try_edge_update_graph(v, s, o, 0)
    IN  [r EXCEPT !.current = t.found, !.new_edge = t.new_edge, !.at = t.at,
                  !.states = IF t.new_edge THEN @ \cup {t.found} ELSE @,
                  !.edges = IF t.new_edge
                            THEN @ \cup {[state1 |-> s, state2 |-> t.found, action |-> "action"]}
                            ELSE @]

\* The explorer v up to and including the first attempt on the element.
first_attempt(v, fwd, repeatable, reverse_action) ==
    LET r0 == [pc |-> "first", variant |-> v, reverse_action |-> reverse_action,
               sfo |-> <<>>, sft |-> {0}, count |-> 0, current |-> 0,
               new_edge |-> FALSE, at |-> 0, states |-> {0}, edges |-> {}]
        r == try_on_page(v, r0, 0, fwd)
    IN  [r EXCEPT !.pc = IF ~chain_starts(v, [found |-> r.current, new_edge |-> r.new_edge])
                         THEN "done"
                         ELSE IF repeatable THEN "loop" ELSE "pop",
                  !.sfo = IF v = "single" THEN <<0, r.current>> ELSE <<0>>]

\* Both explorers are given the page and make their first attempt.
VStart ==
    /\ vr.pc = "idle"
    /\ \E fwd \in [PageStates -> PageStates], rev \in [PageStates -> PageStates],
          repeatable \in BOOLEAN, reverse_action \in {"none", "once", "repeatable"} :
         vr' = [pc |-> "run", fwd |-> fwd, rev |-> rev,
                run |-> [v \in Variants |->
                           first_attempt(v, fwd, repeatable, reverse_action)]]
    /\ UNCHANGED vrFrame

\* One round of the repeat loop.
VRepeat(v) ==
    /\ vr.pc = "run"
    /\ vr.run[v].pc = "loop" /\ repeat_cond(vr.run[v])
    /\ LET r == vr.run[v]
           h == [r EXCEPT !.sfo = repeat_sfo(r), !.sft = @ \cup {r.current},
                          !.count = @ + 1]
       IN  vr' = [vr EXCEPT !.run[v] = try_on_page(v, h, r.current, vr.fwd)]
    /\ UNCHANGED vrFrame

\* The loop condition is false.
VRepeatEnd(v) ==
    /\ vr.pc = "run"
    /\ vr.run[v].pc = "loop" /\ ~repeat_cond(vr.run[v])
    /\ vr' = [vr EXCEPT !.run[v].pc = "pop"]
    /\ UNCHANGED vrFrame

\* "current_state = states_found_in_order.pop()" and the test of
\* reverse_action.
VPop(v) ==
    /\ vr.pc = "run"
    /\ vr.run[v].pc = "pop"
    /\ LET r == vr.run[v]
       IN  vr' = [vr EXCEPT !.run[v] =
                    [r EXCEPT !.pc = IF r.reverse_action = "none" THEN "done" ELSE "reverse",
                              !.current = r.sfo[Len(r.sfo)],
                              !.sfo = SubSeq(r.sfo, 1, Len(r.sfo) - 1)]]
    /\ UNCHANGED vrFrame

\* One round of the reverse loop: the reverse action is performed and the
\* resulting state compared with the expected one.
VReverse(v) ==
    /\ vr.pc = "run"
    /\ vr.run[v].pc = "reverse" /\ vr.run[v].sfo # <<>>
    /\ LET r == vr.run[v]
           t == vr.rev[r.at]
           expected_state == r.sfo[Len(r.sfo)]
       IN  vr' = [vr EXCEPT !.run[v] =
                    [r EXCEPT !.sfo = SubSeq(r.sfo, 1, Len(r.sfo) - 1),
                              !.at = t,
                              !.edges = IF t = expected_state
                                        THEN @ \cup {[state1 |-> r.current,
                                                      state2 |-> expected_state,
                                                      action |-> "reverse"]}
                                        ELSE @,
                              !.current = IF t = expected_state THEN t ELSE @,
                              !.pc = IF t = expected_state /\ r.reverse_action = "repeatable"
                                     THEN "reverse" ELSE "done"]]
    /\ UNCHANGED vrFrame

\* Nothing is left in states_found_in_order.
VReverseEnd(v) ==
    /\ vr.pc = "run"
    /\ vr.run[v].pc = "reverse" /\ vr.run[v].sfo = <<>>
    /\ vr' = [vr EXCEPT !.run[v].pc = "done"]
    /\ UNCHANGED vrFrame

NextVariants ==
    \/ VStart
    \/ \E v \in Variants : VRepeat(v)
    \/ \E v \in Variants : VRepeatEnd(v)
    \/ \E v \in Variants : VPop(v)
    \/ \E v \in Variants : VReverse(v)
    \/ \E v \in Variants : VReverseEnd(v)

SpecVariants == InitStates /\ [][NextVariants]_vars

\* C39: on the same deterministic page the single-threaded and the pooled
\* reduced explorer build graphs with the same states and the same edges,
\* the edges of repeated and of reversed actions included.
C39_VariantsBuildSameGraph ==
    (vr.pc = "run" /\ \A v \in Variants : vr.run[v].pc = "done") =>
        /\ vr.run["single"].states = vr.run["pool"].states
        /\ vr.run["single"].edges = vr.run["pool"].edges

====
